---------------------------- MODULE Spec2Model ----------------------------
(***************************************************************************)
(* A model of the ingest-and-index engine of ess: the Store (SQLite), the  *)
(* Index (Tantivy), the search coordinator and the remote connectors'      *)
(* sync state machines.                                                    *)
(*                                                                         *)
(* Conventions.  A Rust String is a sequence of one-character strings, so  *)
(* that trim and ASCII lower-casing are computed, not assumed.  Option<T>  *)
(* is a sequence of length 0 (None) or 1 (Some).  A Vec<T> is a sequence.  *)
(***************************************************************************)
EXTENDS Integers, Sequences, FiniteSets, TLC

VARIABLES
    accounts,      \* accounts table: account_id -> account_type
    emails,        \* emails table: id -> row (columns as stored)
    idxPending,    \* Tantivy writer: the documents the next commit publishes
    idxCommitted,  \* Tantivy reader: the documents searches see
    last,          \* the last operation and what it returned
    account,       \* the account `ess sync` is run for
    mailbox,       \* the provider's change log of the account's partition
    horizon,       \* the provider rejects cursors older than this as stale
    syncState,     \* sync_state table: key -> cursor
    contacts,      \* contacts table: email_address -> message_count
    run,           \* the sync in flight: where it is and its locals
    ghost,         \* history of the syncs, for the properties only
    tokenKey,      \* the environment's ESS_TOKEN_CACHE_KEY
    now,           \* Utc::now(), in seconds
    tables         \* the tables the database file holds

coreVars == <<accounts, emails, idxPending, idxCommitted, last>>

envVars == <<tokenKey, now, tables>>

syncVars == <<account, mailbox, horizon, syncState, contacts, run, ghost,
              tokenKey, now, tables>>

vars == <<accounts, emails, idxPending, idxCommitted, last,
          account, mailbox, horizon, syncState, contacts, run, ghost,
          tokenKey, now, tables>>

-----------------------------------------------------------------------------
(* Strings *)

None == <<>>

Some(x) == <<x>>

IsSome(o) == Len(o) = 1

Unwrap(o) == o[1]

\* char::is_whitespace, on the characters the model uses
IsWhitespace(c) == c = " "

\* u8::to_ascii_lowercase, on the characters the model uses
AsciiLowerChar(c) ==
    CASE c = "A" -> "a"
      [] c = "B" -> "b"
      [] c = "I" -> "i"
      [] c = "K" -> "k"
      [] c = "M" -> "m"
      [] c = "P" -> "p"
      [] c = "S" -> "s"
      [] OTHER -> c

\* str::to_ascii_lowercase
AsciiLower(s) == [i \in 1..Len(s) |-> AsciiLowerChar(s[i])]

\* str::eq_ignore_ascii_case
EqIgnoreAsciiCase(a, b) == AsciiLower(a) = AsciiLower(b)

RECURSIVE TrimStart(_)
TrimStart(s) ==
    IF s = <<>> THEN s
    ELSE IF IsWhitespace(Head(s)) THEN TrimStart(Tail(s)) ELSE s

RECURSIVE TrimEnd(_)
TrimEnd(s) ==
    IF s = <<>> THEN s
    ELSE IF IsWhitespace(s[Len(s)]) THEN TrimEnd(SubSeq(s, 1, Len(s) - 1)) ELSE s

\* str::trim
Trim(s) == TrimEnd(TrimStart(s))

\* str::contains / str::find(..).is_some()
Contains(text, pat) ==
    \E i \in 0..(Len(text) - Len(pat)) : SubSeq(text, i + 1, i + Len(pat)) = pat

\* Option<String>.as_deref().map(str::trim).filter(|v| !v.is_empty())
TrimmedNonEmpty(o) ==
    IF IsSome(o) /\ Trim(Unwrap(o)) # <<>> THEN Some(Trim(Unwrap(o))) ELSE None

\* Option<String>.as_deref().filter(|v| !v.trim().is_empty())
NonBlank(o) == IF IsSome(o) /\ Trim(Unwrap(o)) # <<>> THEN o ELSE None

-----------------------------------------------------------------------------
(* db/models.rs: the Email record and its row form *)

AccPro == <<"p">>

AccPer == <<"m">>

AccountIds == {AccPro, AccPer}

\* AccountType::Professional as Display writes it
Professional == <<"p", "r", "o", "f", "e", "s", "s", "i", "o", "n", "a", "l">>

\* AccountType::Personal as Display writes it
Personal == <<"p", "e", "r", "s", "o", "n", "a", "l">>

AccountTypes == {Professional, Personal}

IdA == <<"A">>

IdB == <<"B">>

\* received_at is a String; the model keeps the text's parsed shape:
\* an RFC 3339 instant (day, second of day, microsecond), a bare date, or
\* text that is neither.
Rfc3339(d, s, u) == [fmt |-> "rfc3339", day |-> d, sec |-> s, us |-> u]

DateOnly(d) == [fmt |-> "date", day |-> d, sec |-> 0, us |-> 0]

NotADate == [fmt |-> "text", day |-> 0, sec |-> 0, us |-> 0]

\* serde_json::to_string(&Vec<String>)
JsonOfStrings(v) == [json |-> "array", items |-> v, value |-> "null"]

\* serde_json::to_string(&serde_json::Value)
JsonOfValue(x) == [json |-> "value", items |-> <<>>, value |-> x]

\* parse_json_array: a NULL column or text that is no array of strings gives []
parse_json_array(raw) ==
    IF IsSome(raw) /\ Unwrap(raw).json = "array" THEN Unwrap(raw).items ELSE <<>>

\* parse_json_value: NULL gives None; any JSON text gives Some(value)
parse_json_value(raw) ==
    IF IsSome(raw) THEN
        (IF Unwrap(raw).json = "value" THEN Some(Unwrap(raw).value)
         ELSE Some("array"))
    ELSE None

\* rusqlite ToSql for bool: stored as INTEGER 1 / 0
BoolToSql(o) == IF IsSome(o) THEN Some(IF Unwrap(o) THEN 1 ELSE 0) ELSE None

\* rusqlite FromSql for bool: any non-zero INTEGER is true
BoolFromSql(o) == IF IsSome(o) THEN Some(Unwrap(o) # 0) ELSE None

\* The parameter list of insert_email's INSERT OR REPLACE
RowOfEmail(e) ==
    [id |-> e.id,
     account_id |-> e.account_id,
     subject |-> e.subject,
     from_address |-> e.from_address,
     from_name |-> e.from_name,
     to_addresses |-> Some(JsonOfStrings(e.to_addresses)),
     cc_addresses |-> Some(JsonOfStrings(e.cc_addresses)),
     bcc_addresses |-> Some(JsonOfStrings(e.bcc_addresses)),
     body_text |-> e.body_text,
     received_at |-> e.received_at,
     is_read |-> BoolToSql(e.is_read),
     folder |-> e.folder,
     metadata |-> IF IsSome(e.metadata) THEN Some(JsonOfValue(Unwrap(e.metadata)))
                  ELSE None]

\* Email::from_row
EmailFromRow(r) ==
    [id |-> r.id,
     account_id |-> r.account_id,
     subject |-> r.subject,
     from_address |-> r.from_address,
     from_name |-> r.from_name,
     to_addresses |-> parse_json_array(r.to_addresses),
     cc_addresses |-> parse_json_array(r.cc_addresses),
     bcc_addresses |-> parse_json_array(r.bcc_addresses),
     body_text |-> r.body_text,
     received_at |-> r.received_at,
     is_read |-> BoolFromSql(r.is_read),
     folder |-> r.folder,
     metadata |-> parse_json_value(r.metadata)]

-----------------------------------------------------------------------------
(* The emails and accounts the operations are called with *)

KickoffNotes == <<"K", "i", "c", "k", " ", "n">>

WeeklyKick == <<"w", "k", " ", "k", "i", "c", "k">>

Agenda == <<"a", "g">>

BossUpper == <<"B", "o", "@", "x">>

BossLower == <<"b", "o", "@", "x">>

MeUpper == <<"M", "e", "@", "x">>

MeLower == <<"m", "e", "@", "x">>

Inbox == <<"i", "n">>

\* Email A as first ingested: every optional field set
EmailA1 ==
    [id |-> IdA, account_id |-> Some(AccPro), subject |-> Some(KickoffNotes),
     from_address |-> Some(BossUpper), from_name |-> Some(<<"B", "o">>),
     to_addresses |-> <<MeLower>>, cc_addresses |-> <<>>, bcc_addresses |-> <<>>,
     body_text |-> Some(Agenda), received_at |-> Rfc3339(1, 36000, 0),
     is_read |-> Some(FALSE), folder |-> Some(Inbox), metadata |-> Some("object")]

\* Email A as re-ingested: every optional field empty, another owner-less shape
EmailA2 ==
    [id |-> IdA, account_id |-> None, subject |-> None,
     from_address |-> None, from_name |-> None,
     to_addresses |-> <<>>, cc_addresses |-> <<MeUpper>>, bcc_addresses |-> <<>>,
     body_text |-> Some(<<" ">>), received_at |-> DateOnly(2),
     is_read |-> None, folder |-> None, metadata |-> None]

EmailB1 ==
    [id |-> IdB, account_id |-> Some(AccPer), subject |-> Some(<<"d", "g">>),
     from_address |-> Some(BossLower), from_name |-> None,
     to_addresses |-> <<>>, cc_addresses |-> <<>>, bcc_addresses |-> <<MeLower>>,
     body_text |-> Some(WeeklyKick), received_at |-> Rfc3339(2, 86399, 999999),
     is_read |-> Some(TRUE), folder |-> Some(Inbox), metadata |-> Some("null")]

\* Email B with a received_at that is neither RFC 3339 nor YYYY-MM-DD
EmailB2 ==
    [id |-> IdB, account_id |-> Some(AccPro), subject |-> Some(KickoffNotes),
     from_address |-> Some(MeLower), from_name |-> None,
     to_addresses |-> <<BossLower>>, cc_addresses |-> <<>>, bcc_addresses |-> <<>>,
     body_text |-> None, received_at |-> NotADate,
     is_read |-> None, folder |-> Some(Inbox), metadata |-> None]

EmailInputs == {EmailA1, EmailA2, EmailB1, EmailB2}

EmailIds == {e.id : e \in EmailInputs}

-----------------------------------------------------------------------------
(* connectors: the accounts that are synced and a sync's locals *)

\* The Microsoft Graph account of the installation
GraphAccount ==
    [account_id |-> AccPro, account_type |-> Professional, provider |-> "graph"]

\* The Gmail account of the installation
GmailAccount ==
    [account_id |-> AccPer, account_type |-> Personal, provider |-> "gmail"]

\* SyncReport::default()
EmptyReport == [emails_added |-> 0, emails_updated |-> 0, errors |-> <<>>]

\* No sync is in flight
\* The upserts a sync has made so far, by whether the id was in the Store
\* right before: kept for the properties only
NoUpserts == [added |-> 0, updated |-> 0, failed |-> 0]

IdleRun ==
    [pc |-> "idle", mode |-> "none", entries |-> <<>>, page |-> 0, upto |-> 0,
     todo |-> <<>>, round |-> 0, settled |-> {}, seen |-> {},
     report |-> EmptyReport,
     emailsBefore |-> {}, cursorBefore |-> None, stale |-> FALSE,
     staleHorizon |-> 0, failed |-> FALSE, pagesDone |-> 0, tally |-> NoUpserts,
     commitFailed |-> None, gone |-> {}, notFound |-> {}]

\* What is remembered of the syncs that were run: how many, how the previous
\* one ended, and whether the provider changed the mailbox since the start of
\* the latest sync and since the start of the one before it
NoHistory ==
    [syncs |-> 0, prev |-> "none", changedSinceStart |-> FALSE,
     changedSincePrevStart |-> FALSE]

\* create_schema: the tables of the baseline schema
SchemaTables == {"accounts", "emails", "attachments", "contacts", "sync_state"}

\* ESS_TOKEN_CACHE_KEY is not set, or is blank
KeyUnset == "unset"

SyncIdle ==
    /\ account = GraphAccount
    /\ mailbox = <<>>
    /\ horizon = 0
    /\ syncState = {}
    /\ contacts = {}
    /\ run = IdleRun
    /\ ghost = NoHistory
    /\ tokenKey = KeyUnset
    /\ now = 0
    /\ tables = SchemaTables

-----------------------------------------------------------------------------
(* db/mod.rs: the Store *)

AccountRow(id, kind) == [account_id |-> id, account_type |-> kind]

\* rows.next(): the first row of a SELECT ... WHERE id = ?
GetEmailRows(table, id) == {r \in table : r.id = id}

\* Database::get_email
get_email(table, id) ==
    IF GetEmailRows(table, id) = {} THEN None
    ELSE Some(EmailFromRow(CHOOSE r \in GetEmailRows(table, id) : TRUE))

\* A connection without PRAGMA foreign_keys = ON: no reference is checked
ForeignKeysOff(accts, e) == TRUE

\* PRAGMA foreign_keys = ON with emails.account_id REFERENCES accounts(account_id)
ForeignKeyOk(accts, e) ==
    IsSome(e.account_id) => \E a \in accts : a.account_id = Unwrap(e.account_id)

\* INSERT OR IGNORE: an existing row with the same primary key is kept
InsertOrIgnoreEmail(table, e) ==
    IF GetEmailRows(table, e.id) # {} THEN table ELSE table \cup {RowOfEmail(e)}

\* INSERT OR REPLACE INTO emails: the row with the same primary key is removed
InsertOrReplaceEmail(table, e) ==
    {r \in table : r.id # e.id} \cup {RowOfEmail(e)}

\* INSERT OR REPLACE INTO accounts
InsertOrReplaceAccount(accts, id, kind) ==
    {a \in accts : a.account_id # id} \cup {AccountRow(id, kind)}

\* Database::insert_account
InsertAccount(id, kind) ==
    /\ accounts' = InsertOrReplaceAccount(accounts, id, kind)
    /\ last' = [op |-> "insert_account", ok |-> TRUE]
    /\ UNCHANGED <<emails, idxPending, idxCommitted>>
    /\ UNCHANGED syncVars

\* Database::remove_account: DELETE FROM accounts, refused by the foreign key
\* while an email row still references the account
RemoveAccount(id) ==
    LET referenced == \E r \in emails : r.account_id = Some(id)
        hit == {a \in accounts : a.account_id = id}
    IN  /\ accounts' = IF referenced THEN accounts ELSE accounts \ hit
        /\ last' = [op |-> "remove_account", ok |-> ~referenced, id |-> id,
                    existed |-> hit # {},
                    count |-> IF referenced THEN 0 ELSE Cardinality(hit)]
        /\ UNCHANGED <<emails, idxPending, idxCommitted>>
        /\ UNCHANGED syncVars

\* Database::insert_email
InsertEmail(e) ==
    /\ emails' = IF ForeignKeyOk(accounts, e) THEN InsertOrReplaceEmail(emails, e)
                 ELSE emails
    /\ last' = [op |-> "insert_email", ok |-> ForeignKeyOk(accounts, e), email |-> e,
                existed |-> GetEmailRows(emails, e.id) # {},
                before |-> get_email(emails, e.id)]
    /\ UNCHANGED <<accounts, idxPending, idxCommitted>>
    /\ UNCHANGED syncVars

\* Database::get_email
GetEmail(id) ==
    /\ last' = [op |-> "get_email", ok |-> TRUE, id |-> id,
                result |-> get_email(emails, id)]
    /\ UNCHANGED <<accounts, emails, idxPending, idxCommitted>>
    /\ UNCHANGED syncVars

InitStore ==
    /\ accounts = {}
    /\ emails = {}
    /\ idxPending = <<>>
    /\ idxCommitted = <<>>
    /\ last = [op |-> "open", ok |-> TRUE]
    /\ SyncIdle

NextStore ==
    \/ \E id \in AccountIds, kind \in AccountTypes : InsertAccount(id, kind)
    \/ \E id \in AccountIds : RemoveAccount(id)
    \/ \E e \in EmailInputs : InsertEmail(e)
    \/ \E id \in EmailIds : GetEmail(id)

\* The Store driven through its public operations
SpecStore == InitStore /\ [][NextStore]_vars

-----------------------------------------------------------------------------
(* indexer/mod.rs: the Index *)

\* parse_timestamp: RFC 3339, else YYYY-MM-DD taken at midnight UTC, else
\* IndexError::TimestampParse
parse_timestamp(raw) ==
    CASE raw.fmt = "rfc3339" ->
             [ok |-> TRUE, day |-> raw.day, sec |-> raw.sec, us |-> raw.us]
      [] raw.fmt = "date" ->
             [ok |-> TRUE, day |-> raw.day, sec |-> 0, us |-> 0]
      [] OTHER ->
             [ok |-> FALSE, day |-> 0, sec |-> 0, us |-> 0]

\* Order of TantivyDateTime values (microseconds since the epoch)
TimestampLE(a, b) ==
    \/ a.day < b.day
    \/ a.day = b.day /\ a.sec < b.sec
    \/ a.day = b.day /\ a.sec = b.sec /\ a.us <= b.us

\* The document index_email_document builds: blank optional fields are left out
DocumentOf(email, account_type) ==
    [email_db_id |-> email.id,
     account_type |-> AsciiLower(account_type),
     subject |-> NonBlank(email.subject),
     from_name |-> NonBlank(email.from_name),
     from_address |-> NonBlank(email.from_address),
     body_text |-> NonBlank(email.body_text),
     folder |-> NonBlank(email.folder),
     received_at |-> parse_timestamp(email.received_at)]

\* IndexWriter::delete_term on email_db_id without effect
KeepTerm(docs, id) == docs

\* IndexWriter::delete_term on email_db_id: drops every document added so far
\* whose email_db_id is the term
DeleteTerm(docs, id) == SelectSeq(docs, LAMBDA d : d.email_db_id # id)

\* IndexWriter::add_document: the new document gets the next doc address
AddDocument(docs, d) == Append(docs, d)

\* EmailIndex::index_email_document on the writer's pending documents: the
\* delete is staged first, and a received_at that does not parse returns the
\* error before add_document
index_email_document(docs, email, account_type) ==
    LET staged == DeleteTerm(docs, email.id)
        ts == parse_timestamp(email.received_at)
    IN  [ok |-> ts.ok,
         docs |-> IF ts.ok THEN AddDocument(staged, DocumentOf(email, account_type))
                  ELSE staged]

\* The documents of the Index with a given email_db_id
DocsWithId(docs, id) == {i \in 1..Len(docs) : docs[i].email_db_id = id}

\* EmailIndex::add_email: index_email_document, then commit_and_reload
AddEmail(e, kind) ==
    LET r == index_email_document(idxPending, e, kind)
    IN  /\ idxPending' = r.docs
        /\ idxCommitted' = IF r.ok THEN r.docs ELSE idxCommitted
        /\ last' = [op |-> "add_email", ok |-> r.ok, email |-> e, kind |-> kind,
                    had |-> Cardinality(DocsWithId(idxCommitted, e.id)),
                    same |-> \E i \in DocsWithId(idxCommitted, e.id) :
                                 idxCommitted[i] = DocumentOf(e, kind)]
        /\ UNCHANGED <<accounts, emails>>
        /\ UNCHANGED syncVars

\* EmailIndex::delete_email: delete_term, then commit_and_reload
DeleteEmail(id) ==
    /\ idxPending' = DeleteTerm(idxPending, id)
    /\ idxCommitted' = DeleteTerm(idxPending, id)
    /\ last' = [op |-> "delete_email", ok |-> TRUE, id |-> id,
                had |-> Cardinality(DocsWithId(idxCommitted, id))]
    /\ UNCHANGED <<accounts, emails>>
    /\ UNCHANGED syncVars

\* COALESCE(a.account_type, 'personal') over the LEFT JOIN of reindex
JoinedAccountType(accts, row) ==
    IF IsSome(row.account_id)
       /\ \E a \in accts : a.account_id = Unwrap(row.account_id)
    THEN (CHOOSE a \in accts : a.account_id = Unwrap(row.account_id)).account_type
    ELSE Personal

\* Order of the received_at column as SQLite compares TEXT: the timestamps
\* of the model start with a digit and sort before the text that is no date
ReceivedAtRank(raw) == IF parse_timestamp(raw).ok THEN 0 ELSE 1

ReceivedAtBefore(a, b) ==
    \/ ReceivedAtRank(a) < ReceivedAtRank(b)
    \/ /\ ReceivedAtRank(a) = ReceivedAtRank(b)
       /\ parse_timestamp(a) # parse_timestamp(b)
       /\ TimestampLE(parse_timestamp(a), parse_timestamp(b))

\* SELECT ... FROM emails ORDER BY received_at ASC: the rows as a sequence;
\* rows with equal received_at come in an order SQLite chooses
RowsInOrder(table) ==
    {s \in [1..Cardinality(table) -> table] :
        /\ \A i, j \in DOMAIN s : i # j => s[i] # s[j]
        /\ \A i, j \in DOMAIN s : i < j => ~ReceivedAtBefore(s[j].received_at,
                                                            s[i].received_at)}

\* The loop of reindex over the rows: stops at the first row that fails
RECURSIVE IndexRows(_, _, _, _)
IndexRows(docs, rows, accts, count) ==
    IF rows = <<>> THEN [ok |-> TRUE, docs |-> docs, count |-> count]
    ELSE LET r == index_email_document(docs, EmailFromRow(Head(rows)),
                                       JoinedAccountType(accts, Head(rows)))
         IN  IF r.ok THEN IndexRows(r.docs, Tail(rows), accts, count + 1)
             ELSE [ok |-> FALSE, docs |-> r.docs, count |-> count]

\* EmailIndex::reindex: delete_all_documents, index every row, then
\* commit_and_reload; an error leaves the writer uncommitted
Reindex ==
    \E rows \in RowsInOrder(emails) :
        LET r == IndexRows(<<>>, rows, accounts, 0)
        IN  /\ idxPending' = r.docs
            /\ idxCommitted' = IF r.ok THEN r.docs ELSE idxCommitted
            /\ last' = [op |-> "reindex", ok |-> r.ok, count |-> r.count]
            /\ UNCHANGED <<accounts, emails>>
            /\ UNCHANGED syncVars

InitIndex ==
    /\ accounts = {}
    /\ emails = {}
    /\ idxPending = <<>>
    /\ idxCommitted = <<>>
    /\ last = [op |-> "open", ok |-> TRUE]
    /\ SyncIdle

NextIndex ==
    \/ \E id \in AccountIds, kind \in AccountTypes : InsertAccount(id, kind)
    \/ \E e \in EmailInputs : InsertEmail(e)
    \/ \E e \in EmailInputs, kind \in AccountTypes : AddEmail(e, kind)
    \/ \E id \in EmailIds : DeleteEmail(id)
    \/ Reindex

\* The Store and the Index driven through their public operations
SpecIndex == InitIndex /\ [][NextIndex]_vars

-----------------------------------------------------------------------------
(* indexer/schema.rs, indexer/mod.rs: EmailIndex::search *)

SUBJECT_BOOST == 5

FROM_NAME_BOOST == 3

BODY_BOOST == 1

\* NgramTokenizer::new(2, 20, false): shortest and longest n-gram
NGRAM_MIN == 2

NGRAM_MAX == 20

Max(a, b) == IF a >= b THEN a ELSE b

Min(a, b) == IF a <= b THEN a ELSE b

\* The terms the edge_ngram analyzer makes of a text: every n-gram of the
\* lower-cased text, prefix or not
Ngrams(s) ==
    LET lower == AsciiLower(s)
    IN  UNION {{SubSeq(lower, i, i + n - 1) : i \in 1..(Len(s) - n + 1)} :
                  n \in NGRAM_MIN..Min(NGRAM_MAX, Len(s))}

\* The terms the query parser makes of the query text
QueryTerms(query) == Ngrams(Trim(query))

\* How many terms of the query a field of a document holds
FieldHits(field, terms) ==
    IF IsSome(field) THEN Cardinality(terms \cap Ngrams(Unwrap(field))) ELSE 0

\* The score of a document: the boosted sum over the three default fields of
\* the query parser (each matching term adds its field's boost); AllQuery
\* scores every document alike
Score(doc, query, terms) ==
    IF Trim(query) = <<>> THEN 1
    ELSE SUBJECT_BOOST * FieldHits(doc.subject, terms)
         + FROM_NAME_BOOST * FieldHits(doc.from_name, terms)
         + BODY_BOOST * FieldHits(doc.body_text, terms)

\* The Must clauses on account_type, folder and the received_at range
FiltersMatch(doc, filters) ==
    /\ IsSome(TrimmedNonEmpty(filters.account_type)) =>
           doc.account_type = AsciiLower(Unwrap(TrimmedNonEmpty(filters.account_type)))
    /\ IsSome(TrimmedNonEmpty(filters.folder)) =>
           doc.folder = TrimmedNonEmpty(filters.folder)
    /\ IsSome(filters.since) =>
           TimestampLE(parse_timestamp(Unwrap(filters.since)), doc.received_at)
    /\ IsSome(filters.until) =>
           TimestampLE(doc.received_at, parse_timestamp(Unwrap(filters.until)))

\* TopDocs ignoring the score: hits come in doc-address order
RanksByAddressOnly(scoreI, i, scoreJ, j) == i < j

\* TopDocs: higher score first, equal scores by ascending doc address
RanksBefore(scoreI, i, scoreJ, j) ==
    scoreI > scoreJ \/ (scoreI = scoreJ /\ i < j)

\* EmailIndex::search over the reader's documents: the free-text clause is
\* AllQuery for a blank query, else the parsed query
search(docs, query, filters, limit) ==
    LET requested_limit == Max(limit, 1)
        terms == QueryTerms(query)
        score == [i \in DOMAIN docs |-> Score(docs[i], query, terms)]
        matching == {i \in DOMAIN docs :
                        /\ Trim(query) = <<>> \/ score[i] > 0
                        /\ FiltersMatch(docs[i], filters)}
        Rank(i) == Cardinality({j \in matching : RanksBefore(score[j], j, score[i], i)})
        n == Min(requested_limit, Cardinality(matching))
    IN  [k \in 1..n |->
            LET i == CHOOSE i \in matching : Rank(i) = k - 1
            IN  [email_db_id |-> docs[i].email_db_id, score |-> score[i]]]

-----------------------------------------------------------------------------
(* search/mod.rs: the search coordinator *)

\* The query the Index is asked: the argument, or filters.query when the
\* argument is blank
QueryText(query, filters) ==
    IF Trim(query) = <<>>
    THEN (IF IsSome(filters.query) THEN Unwrap(filters.query) ELSE <<>>)
    ELSE query

\* limit.saturating_add(offset).max(1)
RequestedLimit(filters) == Max(filters.limit + filters.offset, 1)

\* Scope as the account_type term
ScopeAccountType(scope) ==
    CASE scope = "professional" -> Some(Professional)
      [] scope = "personal" -> Some(Personal)
      [] OTHER -> None

\* date.format("%Y-%m-%d").to_string()
FormatDate(date) ==
    IF IsSome(date) THEN Some(DateOnly(Unwrap(date))) ELSE None

\* The IndexSearchFilters search_emails hands to the Index
IndexFiltersOf(filters) ==
    [account_type |-> ScopeAccountType(filters.scope),
     folder |-> filters.folder,
     since |-> FormatDate(filters.since),
     until |-> FormatDate(filters.until)]

FromMatches(email, filters) ==
    IsSome(TrimmedNonEmpty(filters.from)) =>
        /\ IsSome(email.from_address)
        /\ EqIgnoreAsciiCase(Unwrap(email.from_address),
                             Unwrap(TrimmedNonEmpty(filters.from)))

AccountMatches(email, filters) ==
    IsSome(TrimmedNonEmpty(filters.account)) =>
        email.account_id = TrimmedNonEmpty(filters.account)

ToMatches(email, filters) ==
    IsSome(TrimmedNonEmpty(filters.to)) =>
        LET recipients == email.to_addresses \o email.cc_addresses \o email.bcc_addresses
        IN  \E i \in DOMAIN recipients :
                EqIgnoreAsciiCase(recipients[i], Unwrap(TrimmedNonEmpty(filters.to)))

UnreadMatches(email, filters) ==
    ~(filters.unread_only /\ IsSome(email.is_read) /\ Unwrap(email.is_read))

\* No residual predicate is applied
ResidualSkipped(email, filters) == TRUE

\* The residual predicates of search_emails, in the order the loop tests them
ResidualOk(email, filters) ==
    /\ FromMatches(email, filters)
    /\ AccountMatches(email, filters)
    /\ ToMatches(email, filters)
    /\ UnreadMatches(email, filters)

\* The loop over the index hits: a hit without a Store row, or whose row
\* fails a residual predicate, is skipped
RECURSIVE CollectResults(_, _, _)
CollectResults(hits, table, filters) ==
    IF hits = <<>> THEN <<>>
    ELSE LET found == get_email(table, Head(hits).email_db_id)
             rest == CollectResults(Tail(hits), table, filters)
         IN  IF IsSome(found) /\ ResidualOk(Unwrap(found), filters)
             THEN <<[email |-> Unwrap(found), score |-> Head(hits).score]>> \o rest
             ELSE rest

\* results.into_iter().skip(offset)
Skip(results, offset) == SubSeq(results, offset + 1, Len(results))

\* search_emails: the index hits and the results the caller gets
search_emails(docs, table, query, filters) ==
    LET index_hits == search(docs, QueryText(query, filters), IndexFiltersOf(filters),
                             RequestedLimit(filters))
        results == CollectResults(index_hits, table, filters)
    IN  [hits |-> index_hits,
         results |-> IF filters.offset > 0 THEN Skip(results, filters.offset)
                     ELSE results]

\* The largest limit and offset the searches are called with
MaxLimit == 2

MaxOffset == 1

Kick == <<"k", "i", "c", "k">>

\* EmailFilters::default()
DefaultFilters ==
    [query |-> None, scope |-> "all", from |-> None, to |-> None, since |-> None,
     until |-> None, account |-> None, folder |-> None, unread_only |-> FALSE,
     limit |-> 20, offset |-> 0]

\* The (query, filters) pairs called with every limit and offset
PagedShapes ==
    {[query |-> <<>>, filters |-> DefaultFilters],
     [query |-> <<" ">>,
      filters |-> [DefaultFilters EXCEPT !.query = Some(Kick), !.from = Some(<<" ">>)]]}

\* The (query, filters) pairs that set a residual or a coarse predicate
FilteredShapes ==
    {[query |-> <<>>,
      filters |-> [DefaultFilters EXCEPT !.from = Some(<<" ">> \o BossLower)]],
     [query |-> <<>>,
      filters |-> [DefaultFilters EXCEPT !.to = Some(MeLower \o <<" ">>)]],
     [query |-> <<>>,
      filters |-> [DefaultFilters EXCEPT !.account = Some(AccPro),
                                         !.scope = "professional"]],
     [query |-> Kick,
      filters |-> [DefaultFilters EXCEPT !.unread_only = TRUE, !.scope = "personal"]],
     [query |-> <<>>,
      filters |-> [DefaultFilters EXCEPT !.folder = Some(Inbox), !.since = Some(1),
                                         !.until = Some(2)]]}

\* The calls of search_emails: the paged shapes with every limit and offset
\* up to the bounds, the filtered shapes on the first page and on a later one
SearchInputs ==
    {[query |-> s.query,
      filters |-> [s.filters EXCEPT !.limit = l, !.offset = o]] :
        s \in PagedShapes, l \in 0..MaxLimit, o \in 0..MaxOffset}
    \cup
    {[query |-> s.query,
      filters |-> [s.filters EXCEPT !.limit = p[1], !.offset = p[2]]] :
        s \in FilteredShapes, p \in {<<MaxLimit, 0>>, <<1, MaxOffset>>}}

\* A call of search_emails
SearchEmails(query, filters) ==
    LET r == search_emails(idxCommitted, emails, query, filters)
    IN  /\ last' = [op |-> "search_emails", ok |-> TRUE, query |-> query,
                    filters |-> filters, hits |-> r.hits, results |-> r.results]
        /\ UNCHANGED <<accounts, emails, idxPending, idxCommitted>>
        /\ UNCHANGED syncVars

\* The account type an ingest path hands to add_email: that of the account
\* the email belongs to
KindOf(e) == IF e.account_id = Some(AccPro) THEN Professional ELSE Personal

\* Both accounts are configured, nothing is ingested yet
InitSearch ==
    /\ accounts = {AccountRow(AccPro, Professional), AccountRow(AccPer, Personal)}
    /\ emails = {}
    /\ idxPending = <<>>
    /\ idxCommitted = <<>>
    /\ last = [op |-> "open", ok |-> TRUE]
    /\ SyncIdle

NextSearch ==
    \/ \E e \in EmailInputs : InsertEmail(e)
    \/ \E e \in EmailInputs : AddEmail(e, KindOf(e))
    \/ \E id \in EmailIds : DeleteEmail(id)
    \/ Reindex
    \/ \E s \in SearchInputs : SearchEmails(s.query, s.filters)

\* Searches interleaved with ingest, removal and reindex
SpecSearch == InitSearch /\ [][NextSearch]_vars

-----------------------------------------------------------------------------
(* connectors: the provider, sync_state, contacts and the per-message ingest *)

\* The most changes the provider makes to the mailbox
MaxChanges == 3

\* The most syncs that are run
MaxSyncs == 2

\* The number of entries the provider puts on a page
PageSize == 1

MAX_BATCH_RETRIES == 3

MessageIds == {IdA, IdB}

\* A change in the provider's log: a message delivered, or removed; the
\* receivedDateTime of a delivered message is a timestamp unless it is marked
\* malformed
Event(id, removed) == [id |-> id, removed |-> removed, malformed |-> FALSE]

MalformedEvent(id) == [id |-> id, removed |-> FALSE, malformed |-> TRUE]

\* The message ids in the mailbox after the first n changes
RECURSIVE PresentAt(_, _)
PresentAt(log, n) ==
    IF n = 0 THEN {}
    ELSE IF log[n].removed THEN PresentAt(log, n - 1) \ {log[n].id}
    ELSE PresentAt(log, n - 1) \cup {log[n].id}

\* Byte order of the characters email ids are made of
CharCode(c) ==
    CASE c = "0" -> 48 [] c = "4" -> 52 [] c = "A" -> 65 [] c = "B" -> 66 [] OTHER -> 0

\* str::cmp: a < b
RECURSIVE StrLess(_, _)
StrLess(a, b) ==
    IF b = <<>> THEN FALSE
    ELSE IF a = <<>> THEN TRUE
    ELSE IF Head(a) = Head(b) THEN StrLess(Tail(a), Tail(b))
    ELSE CharCode(Head(a)) < CharCode(Head(b))

\* A listing of messages in the provider's order
RECURSIVE Listing(_)
Listing(ids) ==
    IF ids = {} THEN <<>>
    ELSE LET first == CHOOSE x \in ids : \A y \in ids : y = x \/ StrLess(x, y)
         IN  <<Event(first, FALSE)>> \o Listing(ids \ {first})

\* The change feed: the changes after cursor `from` up to position `upto`
ChangesSince(log, from, upto) == SubSeq(log, from + 1, upto)

\* Page k (from 0) of a paged response, and whether a next link follows it
PageOf(entries, k) ==
    SubSeq(entries, k * PageSize + 1, Min((k + 1) * PageSize, Len(entries)))

HasNextPage(entries, k) == (k + 1) * PageSize < Len(entries)

\* received_at of a mapped message: Graph's receivedDateTime as the provider
\* sent it, Gmail's internalDate formatted as RFC 3339
ReceivedDateTime(id, acct) ==
    IF /\ acct.provider = "graph"
       /\ \E i \in DOMAIN mailbox : mailbox[i].id = id /\ mailbox[i].malformed
    THEN NotADate
    ELSE Rfc3339(1, 0, 0)

\* map_graph_message_to_email / map_gmail_message_to_email on the messages
\* of the model
MessageEmail(id, acct) ==
    [id |-> id, account_id |-> Some(acct.account_id), subject |-> Some(Agenda),
     from_address |-> Some(BossUpper), from_name |-> None,
     to_addresses |-> <<>>, cc_addresses |-> <<>>, bcc_addresses |-> <<>>,
     body_text |-> None, received_at |-> ReceivedDateTime(id, acct),
     is_read |-> Some(FALSE), folder |-> Some(Inbox), metadata |-> None]

\* sync_state keys
DeltaLinkKey == "graph_delta_link:account:folder_id"

LegacyWellKnownKey == "graph_delta_link:account:inbox"

LegacyKey == "graph_delta_link:account"

HistoryIdKey == "gmail_history_id:account"

\* Database::get_sync_state, the value column
get_sync_state(table, key) ==
    IF \E r \in table : r.key = key
    THEN Some((CHOOSE r \in table : r.key = key).value)
    ELSE None

\* Database::set_sync_state: INSERT ... ON CONFLICT(key) DO UPDATE
set_sync_state(table, key, value) ==
    {r \in table : r.key # key} \cup {[key |-> key, value |-> value]}

\* clear_sync_state: DELETE FROM sync_state WHERE key = ?
clear_sync_state(table, key) == {r \in table : r.key # key}

\* load_delta_link: the folder-id key, else a legacy key migrated to it
load_delta_link(table) ==
    IF IsSome(get_sync_state(table, DeltaLinkKey))
    THEN [value |-> get_sync_state(table, DeltaLinkKey), table |-> table]
    ELSE IF IsSome(get_sync_state(table, LegacyWellKnownKey))
    THEN [value |-> get_sync_state(table, LegacyWellKnownKey),
          table |-> clear_sync_state(
                        set_sync_state(table, DeltaLinkKey,
                                       Unwrap(get_sync_state(table, LegacyWellKnownKey))),
                        LegacyWellKnownKey)]
    ELSE IF IsSome(get_sync_state(table, LegacyKey))
    THEN [value |-> get_sync_state(table, LegacyKey),
          table |-> clear_sync_state(
                        set_sync_state(table, DeltaLinkKey,
                                       Unwrap(get_sync_state(table, LegacyKey))),
                        LegacyKey)]
    ELSE [value |-> None, table |-> table]

\* store_delta_link
store_delta_link(table, link) == set_sync_state(table, DeltaLinkKey, link)

\* load_history_id
load_history_id(table) == get_sync_state(table, HistoryIdKey)

\* The history id is stored one change later than the one captured
StoreLaterHistoryId(table, history_id) ==
    set_sync_state(table, HistoryIdKey, history_id + 1)

\* store_history_id
store_history_id(table, history_id) == set_sync_state(table, HistoryIdKey, history_id)

\* The cursor of the account's partition, whichever connector owns it
StoredCursor ==
    IF account.provider = "graph" THEN get_sync_state(syncState, DeltaLinkKey)
    ELSE get_sync_state(syncState, HistoryIdKey)

\* Database::update_contact_stats: INSERT ... ON CONFLICT DO UPDATE
\* message_count = message_count + 1
UpsertContact(table, address) ==
    IF \E c \in table : c.email_address = address
    THEN {IF c.email_address = address
          THEN [c EXCEPT !.message_count = c.message_count + 1] ELSE c : c \in table}
    ELSE table \cup {[email_address |-> address, message_count |-> 1]}

\* The distinct non-empty addresses of an email, trimmed and lower-cased
NormalizedAddresses(email) ==
    LET all == (IF IsSome(email.from_address) THEN <<Unwrap(email.from_address)>> ELSE <<>>)
               \o email.to_addresses \o email.cc_addresses \o email.bcc_addresses
    IN  {AsciiLower(Trim(all[i])) : i \in DOMAIN all} \ {<<>>}

\* update_contact_stats of the connectors
RECURSIVE UpdateContacts(_, _)
UpdateContacts(table, addresses) ==
    IF addresses = {} THEN table
    ELSE LET a == CHOOSE x \in addresses : TRUE
         IN  UpdateContacts(UpsertContact(table, a), addresses \ {a})

update_contact_stats(table, email) == UpdateContacts(table, NormalizedAddresses(email))

\* EmailIndex::add_email_buffered: as add_email, but commit and reload are
\* left to a later commit
add_email_buffered(docs, email, kind) == index_email_document(docs, email, kind)

\* Database::get_email_ids_for_account
get_email_ids_for_account(table, account_id) ==
    {r.id : r \in {x \in table : x.account_id = Some(account_id)}}

\* The Store, Index and contacts a message is applied to
World == [emails |-> emails, pending |-> idxPending, committed |-> idxCommitted,
          contacts |-> contacts, tally |-> run.tally]

\* insert_email has written a row whose id was, or was not, in the Store
Tallied(tally, existed) ==
    IF existed THEN [tally EXCEPT !.updated = @ + 1] ELSE [tally EXCEPT !.added = @ + 1]

\* apply_message or apply_message_buffered has returned Err
NotApplied(tally) == [tally EXCEPT !.failed = @ + 1]

\* apply_message / apply_message_buffered for a message that is not removed:
\* get_email, insert_email, add_email or add_email_buffered, update_contact_stats
UpsertMessage(w, accts, acct, id, commit) ==
    LET email == MessageEmail(id, acct)
        existed == IsSome(get_email(w.emails, id))
        indexed == add_email_buffered(w.pending, email, acct.account_type)
    IN  IF ~ForeignKeyOk(accts, email)
        THEN [world |-> [w EXCEPT !.tally = NotApplied(w.tally)], result |-> "Error"]
        ELSE IF ~indexed.ok
        THEN [world |-> [w EXCEPT !.emails = InsertOrReplaceEmail(w.emails, email),
                                  !.pending = indexed.docs,
                                  !.tally = NotApplied(Tallied(w.tally, existed))],
              result |-> "Error"]
        ELSE [world |-> [emails |-> InsertOrReplaceEmail(w.emails, email),
                         pending |-> indexed.docs,
                         committed |-> IF commit THEN indexed.docs ELSE w.committed,
                         contacts |-> update_contact_stats(w.contacts, email),
                         tally |-> Tallied(w.tally, existed)],
              result |-> IF existed THEN "Updated" ELSE "Added"]

\* DELETE FROM emails WHERE id = ?, then EmailIndex::delete_email
RemoveMessage(w, id) ==
    [world |-> [w EXCEPT !.emails = {r \in w.emails : r.id # id},
                         !.pending = DeleteTerm(w.pending, id),
                         !.committed = DeleteTerm(w.pending, id)],
     result |-> "Deleted"]

\* Graph apply_message_buffered
GraphApplyMessage(w, accts, acct, ev) ==
    IF ev.removed THEN RemoveMessage(w, ev.id)
    ELSE UpsertMessage(w, accts, acct, ev.id, FALSE)

\* How a page loop counts an ApplyResult in the report
Counted(report, result) ==
    CASE result = "Added" ->
             [report EXCEPT !.emails_added = report.emails_added + 1]
      [] result \in {"Updated", "Deleted"} ->
             [report EXCEPT !.emails_updated = report.emails_updated + 1]
      [] OTHER ->
             [report EXCEPT !.errors = Append(report.errors, "apply")]

\* The loop over the messages of a Graph page; the delta baseline walk
\* ignores the results
RECURSIVE GraphApplyPage(_, _, _, _, _, _)
GraphApplyPage(w, accts, acct, events, report, counted) ==
    IF events = <<>> THEN [world |-> w, report |-> report]
    ELSE LET r == GraphApplyMessage(w, accts, acct, Head(events))
         IN  GraphApplyPage(r.world, accts, acct, Tail(events),
                            IF counted THEN Counted(report, r.result) ELSE report,
                            counted)

\* EmailIndex::commit: flushes the pending writes and reloads the reader
Commit(w) == [w EXCEPT !.committed = w.pending]

-----------------------------------------------------------------------------
(* connectors: a sync run, step by step *)

\* A cursor written to sync_state after every page of the walk
StoreEveryPage(table, key, position, done) == set_sync_state(table, key, position)

\* The cursor of a walk is written once, after the loop over the pages
StoreWhenDone(table, key, position, done) ==
    IF done THEN set_sync_state(table, key, position) ELSE table

\* The change-feed position after page k of a walk that began at `from`
BoundaryAfter(from, k, upto) == Min(from + (k + 1) * PageSize, upto)

\* The provider rejects a cursor older than its horizon
IsStale(cursor) == cursor < horizon

\* The messages in the mailbox now
PresentNow == PresentAt(mailbox, Len(mailbox))

\* A step of a sync that goes on: the Store, the Index, the contacts and
\* sync_state as the step leaves them
Proceed(w, table, r) ==
    /\ emails' = w.emails
    /\ idxPending' = w.pending
    /\ idxCommitted' = w.committed
    /\ contacts' = w.contacts
    /\ syncState' = table
    /\ run' = [r EXCEPT !.tally = w.tally]
    /\ last' = [op |-> "sync_step"]
    /\ UNCHANGED envVars
    /\ UNCHANGED <<accounts, account, mailbox, horizon, ghost>>

\* The end of a sync: what it returned and what it left behind
Finish(w, table, ok, report, stored, r) ==
    /\ emails' = w.emails
    /\ idxPending' = w.pending
    /\ idxCommitted' = w.committed
    /\ contacts' = w.contacts
    /\ syncState' = table
    /\ run' = IdleRun
    /\ last' = [op |-> "sync", ok |-> ok, cancelled |-> FALSE, report |-> report,
                mode |-> r.mode, stale |-> r.stale,
                staleHorizon |-> r.staleHorizon,
                failed |-> r.failed, pagesDone |-> r.pagesDone,
                cursorBefore |-> r.cursorBefore, stored |-> stored,
                unchanged |-> (w.emails = r.emailsBefore),
                nth |-> ghost.syncs, prev |-> ghost.prev,
                quiet |-> ~ghost.changedSincePrevStart,
                upserts |-> w.tally, commitFailed |-> r.commitFailed,
                gone |-> r.gone, notFound |-> r.notFound]
    /\ ghost' = [ghost EXCEPT !.prev = IF ~ok THEN "err"
                                       ELSE IF stored THEN "ok_persisted"
                                       ELSE "ok_unpersisted"]
    /\ UNCHANGED envVars
    /\ UNCHANGED <<accounts, account, mailbox, horizon>>

\* The locals of a sync after a request failed, and after the provider
\* rejected the stored cursor as stale
Failed(r) == [r EXCEPT !.failed = TRUE]

Rejected(r) == [r EXCEPT !.stale = TRUE, !.staleHorizon = horizon]

\* The locals of a sync that starts
StartedRun(pc, mode, entries, cursor) ==
    [IdleRun EXCEPT !.pc = pc, !.mode = mode, !.entries = entries,
                    !.upto = Len(mailbox), !.emailsBefore = emails,
                    !.cursorBefore = cursor]

StartedHistory ==
    [ghost EXCEPT !.syncs = ghost.syncs + 1,
                  !.changedSincePrevStart = ghost.changedSinceStart,
                  !.changedSinceStart = FALSE]

\* A sync that returns before it touched the partition
FailAtStart(accts) ==
    /\ accounts' = accts
    /\ run' = IdleRun
    /\ last' = [op |-> "sync", ok |-> FALSE, cancelled |-> FALSE,
                report |-> EmptyReport, mode |-> "none", stale |-> FALSE,
                staleHorizon |-> 0, failed |-> TRUE, pagesDone |-> 0,
                cursorBefore |-> StoredCursor, stored |-> FALSE,
                unchanged |-> TRUE, nth |-> ghost.syncs + 1, prev |-> ghost.prev,
                quiet |-> ~ghost.changedSinceStart, upserts |-> NoUpserts,
                commitFailed |-> None, gone |-> {}, notFound |-> {}]
    /\ ghost' = [StartedHistory EXCEPT !.prev = "err"]
    /\ UNCHANGED envVars
    /\ UNCHANGED <<emails, idxPending, idxCommitted, contacts, syncState,
                   account, mailbox, horizon>>

\* The one error line a failed folder leaves in the account's report; the
\* folder's own counts and error lines are dropped with its Err
FolderFailed == [EmptyReport EXCEPT !.errors = <<"folder">>]

\* GraphApiConnector::sync up to the folder's first request: insert_account,
\* discover_folders, load_delta_link
GraphSyncStart(outcome) ==
    /\ run.pc = "idle"
    /\ account.provider = "graph"
    /\ ghost.syncs < MaxSyncs
    /\ LET accts == InsertOrReplaceAccount(accounts, account.account_id,
                                           account.account_type)
           loaded == load_delta_link(syncState)
       IN  IF outcome = "discover_error" THEN FailAtStart(accts)
           ELSE /\ accounts' = accts
                /\ syncState' = loaded.table
                /\ ghost' = StartedHistory
                /\ last' = [op |-> "sync_step"]
                /\ run' = IF IsSome(loaded.value)
                          THEN StartedRun("graph_delta", "incremental",
                                          ChangesSince(mailbox, Unwrap(loaded.value),
                                                       Len(mailbox)),
                                          loaded.value)
                          ELSE StartedRun("graph_enumerate", "bootstrap",
                                          Listing(PresentNow), None)
                /\ UNCHANGED envVars
                /\ UNCHANGED <<emails, idxPending, idxCommitted, contacts,
                               account, mailbox, horizon>>

\* indexer.commit()? has failed after the messages of a page were applied:
\* the folder's sync returns the error, and the writes that were not
\* committed go with the writer
CommitFailed(w, report) ==
    Finish([w EXCEPT !.pending = w.committed], syncState, TRUE, FolderFailed, FALSE,
           [Failed(run) EXCEPT !.commitFailed = Some(report)])

\* The delta baseline walk that follows the enumeration
BaselineRun(report, failed) ==
    [run EXCEPT !.pc = "graph_baseline", !.entries = Listing(PresentNow),
                !.page = 0, !.upto = Len(mailbox), !.report = report,
                !.failed = failed]

MAX_CONSECUTIVE_PAGE_ERRORS == 3

\* The Err arm of the page fetch in full_enumerate_folder: the loop is left
\* with `break` when the counter has reached the limit, and with the `break`
\* that follows the test when it has not
LeavesEnumeration(consecutive_errors) ==
    IF consecutive_errors >= MAX_CONSECUTIVE_PAGE_ERRORS THEN TRUE ELSE TRUE

\* full_enumerate_folder, one page of the list endpoint; consecutive_errors is
\* 0 at every fetch, since a page that arrives resets it and a page that
\* fails ends the loop
GraphEnumeratePage(outcome) ==
    /\ run.pc = "graph_enumerate"
    /\ IF outcome = "error" /\ LeavesEnumeration(0 + 1)
       THEN Proceed(World, syncState,
                    BaselineRun([run.report EXCEPT
                                    !.errors = Append(@, "page_fetch_error")],
                                TRUE))
       ELSE LET applied == GraphApplyPage(World, accounts, account,
                                          PageOf(run.entries, run.page),
                                          run.report, TRUE)
            IN  IF outcome = "commit_error"
                THEN CommitFailed(applied.world, applied.report)
                ELSE IF HasNextPage(run.entries, run.page)
                THEN Proceed(Commit(applied.world), syncState,
                             [run EXCEPT !.page = run.page + 1,
                                         !.report = applied.report])
                ELSE Proceed(Commit(applied.world), syncState,
                             BaselineRun(applied.report, run.failed))

\* full_enumerate_folder, one page of the delta baseline walk
GraphBaselinePage(outcome) ==
    /\ run.pc = "graph_baseline"
    /\ IF outcome = "error"
       THEN Finish(World, syncState, TRUE, FolderFailed, FALSE, Failed(run))
       ELSE LET applied == GraphApplyPage(World, accounts, account,
                                          PageOf(run.entries, run.page),
                                          run.report, FALSE)
            IN  IF outcome = "commit_error"
                THEN CommitFailed(applied.world, run.report)
                ELSE IF HasNextPage(run.entries, run.page)
                THEN Proceed(Commit(applied.world), syncState,
                             [run EXCEPT !.page = run.page + 1])
                ELSE Finish(Commit(applied.world),
                            store_delta_link(syncState, run.upto),
                            TRUE, run.report, TRUE, run)

\* sync_folder, one page of the delta walk from the stored delta link
GraphDeltaPage(outcome) ==
    /\ run.pc = "graph_delta"
    /\ outcome = "stale" => IsStale(Unwrap(run.cursorBefore))
    /\ outcome \in {"ok", "commit_error"} => ~IsStale(Unwrap(run.cursorBefore))
    /\ IF outcome = "stale"
       THEN Finish(World, syncState, TRUE, FolderFailed, FALSE, Rejected(run))
       ELSE IF outcome = "error"
       THEN Finish(World, syncState, TRUE, FolderFailed, FALSE, Failed(run))
       ELSE LET applied == GraphApplyPage(World, accounts, account,
                                          PageOf(run.entries, run.page),
                                          run.report, TRUE)
                more == HasNextPage(run.entries, run.page)
                table == StoreWhenDone(syncState, DeltaLinkKey,
                                       BoundaryAfter(Unwrap(run.cursorBefore),
                                                     run.page, run.upto),
                                       ~more)
            IN  IF outcome = "commit_error"
                THEN CommitFailed(applied.world, applied.report)
                ELSE IF more
                THEN Proceed(Commit(applied.world), table,
                             [run EXCEPT !.page = run.page + 1,
                                         !.pagesDone = run.pagesDone + 1,
                                         !.report = applied.report])
                ELSE Finish(Commit(applied.world), table, TRUE, applied.report,
                            TRUE, [run EXCEPT !.pagesDone = run.pagesDone + 1])

\* GmailApiConnector::sync up to the first request: get_access_token,
\* insert_account, load_history_id
GmailSyncStart(outcome) ==
    /\ run.pc = "idle"
    /\ account.provider = "gmail"
    /\ ghost.syncs < MaxSyncs
    /\ LET accts == InsertOrReplaceAccount(accounts, account.account_id,
                                           account.account_type)
           saved == load_history_id(syncState)
       IN  IF outcome = "token_error" THEN FailAtStart(accounts)
           ELSE /\ accounts' = accts
                /\ ghost' = StartedHistory
                /\ last' = [op |-> "sync_step"]
                /\ run' = IF IsSome(saved)
                          THEN StartedRun("gmail_history", "incremental",
                                          ChangesSince(mailbox, Unwrap(saved),
                                                       Len(mailbox)),
                                          saved)
                          ELSE StartedRun("gmail_profile", "bootstrap", <<>>, None)
                /\ UNCHANGED envVars
                /\ UNCHANGED <<emails, idxPending, idxCommitted, contacts,
                               syncState, account, mailbox, horizon>>

\* sync_full: get_access_token and get_profile capture the history id
GmailProfile(outcome) ==
    /\ run.pc = "gmail_profile"
    /\ IF outcome = "error"
       THEN Finish(World, syncState, FALSE, EmptyReport, FALSE, Failed(run))
       ELSE Proceed(World, syncState,
                    [run EXCEPT !.pc = "gmail_list", !.upto = Len(mailbox)])

\* The ids of a listing that the Store does not hold for the account
MissingIds(listing, existing) ==
    SelectSeq([i \in DOMAIN listing |-> listing[i].id], LAMBDA id : id \notin existing)

\* sync_full: enumerate_all_message_ids and the diff against the Store
GmailList(outcome) ==
    /\ run.pc = "gmail_list"
    /\ LET missing == MissingIds(Listing(PresentNow),
                                 get_email_ids_for_account(emails, account.account_id))
       IN  IF outcome = "error"
           THEN Finish(World, syncState, FALSE, EmptyReport, FALSE, Failed(run))
           ELSE IF missing = <<>>
           THEN Finish(World, store_history_id(syncState, run.upto), TRUE,
                       run.report, TRUE, run)
           ELSE Proceed(World, syncState,
                        [run EXCEPT !.pc = "gmail_batch", !.todo = missing,
                                    !.round = 0])

\* The status line of a sub-response, up to its reason phrase
StatusLine(code) == <<"H", "T", "T", "P", "/", "1", ".", "1", " ">> \o code

Status200 == StatusLine(<<"2", "0", "0">>)

Status429 == StatusLine(<<"4", "2", "9">>)

Status404 == StatusLine(<<"4", "0", "4">>)

\* One part of a multipart/mixed batch response: the sub-request it answers,
\* its status line (None when the part has no "HTTP/1.1 "), and what follows
\* the status line: a JSON object that is a GmailMessage ("message"), another
\* JSON object ("object"), or no '{' at all ("none")
Part(answers, status_line, body) ==
    [answers |-> answers, status_line |-> status_line, body |-> body]

\* A BatchParseResult, the error lines pushed to the report, and the locals
\* seen_ids and part_index
BatchParse(messages, retryable_ids, errors, seen_ids, part_index) ==
    [messages |-> messages, retryable_ids |-> retryable_ids, errors |-> errors,
     seen_ids |-> seen_ids, part_index |-> part_index]

\* sent_ids.get(part_index).cloned()
SentAt(sent_ids, part_index) ==
    IF part_index < Len(sent_ids) THEN Some(sent_ids[part_index + 1]) ELSE None

\* seen_ids.insert(id) under `if let Some(id) = &current_id`
SeenCurrent(seen_ids, current_id) ==
    IF IsSome(current_id) THEN seen_ids \cup {Unwrap(current_id)} ELSE seen_ids

\* An error line of the parser, and the sub-response whose body it quotes
ErrorLine(line, part) == [line |-> line, id |-> part.answers]

\* The body of the loop over the parts of parse_batch_response
ParsePart(part, sent_ids, p) ==
    LET current_id == SentAt(sent_ids, p.part_index)
        q == [p EXCEPT !.part_index = p.part_index + 1]
    IN  IF part.status_line = None \/ part.body = "none" THEN q
        ELSE IF Contains(Unwrap(part.status_line), <<"4", "2", "9">>)
        THEN IF IsSome(current_id)
             THEN [q EXCEPT !.retryable_ids = Append(@, Unwrap(current_id)),
                            !.seen_ids = @ \cup {Unwrap(current_id)}]
             ELSE q
        ELSE IF ~Contains(Unwrap(part.status_line), <<"2", "0", "0">>)
        THEN [q EXCEPT !.seen_ids = SeenCurrent(@, current_id),
                       !.errors = Append(@, ErrorLine("batch sub-request failed", part))]
        ELSE IF part.body = "message"
        THEN [q EXCEPT !.seen_ids = @ \cup {part.answers},
                       !.messages = Append(@, part.answers)]
        ELSE [q EXCEPT !.seen_ids = SeenCurrent(@, current_id),
                       !.errors = Append(@, ErrorLine("batch response parse error", part))]

RECURSIVE ParseParts(_, _, _)
ParseParts(parts, sent_ids, p) ==
    IF parts = <<>> THEN p
    ELSE ParseParts(Tail(parts), sent_ids, ParsePart(Head(parts), sent_ids, p))

\* The closing loop of parse_batch_response: the sent ids that are not in
\* seen_ids are retryable
Unaccounted(sent_ids, seen_ids) == SelectSeq(sent_ids, LAMBDA id : id \notin seen_ids)

\* parse_batch_response: parts are matched to the sent ids by position;
\* without a boundary in the content type every sent id is retryable
parse_batch_response(parts, boundary, sent_ids) ==
    IF ~boundary
    THEN BatchParse(<<>>, sent_ids,
                    <<[line |-> "batch response missing boundary", id |-> None]>>,
                    {}, 0)
    ELSE LET p == ParseParts(parts, sent_ids, BatchParse(<<>>, <<>>, <<>>, {}, 0))
         IN  [p EXCEPT !.retryable_ids = @ \o Unaccounted(sent_ids, p.seen_ids)]

\* The sub-response to one sub-request: the message, 429, or another status
\* (404 once the message is gone)
SubResponse(id, fetch, present) ==
    IF fetch[id] = "ok" /\ id \in present THEN Part(id, Some(Status200), "message")
    ELSE IF fetch[id] = "throttled" THEN Part(id, Some(Status429), "object")
    ELSE IF fetch[id] = "bare" THEN Part(id, Some(Status404), "none")
    ELSE Part(id, Some(Status404), "object")

\* Vec::reverse
RECURSIVE Reverse(_)
Reverse(seq) == IF seq = <<>> THEN <<>> ELSE Append(Reverse(Tail(seq)), Head(seq))

\* The provider's response to a batch: one part per sub-request, in the order
\* of the requests or in another order
BatchResponse(ids, fetch, present, order) ==
    LET parts == [i \in DOMAIN ids |-> SubResponse(ids[i], fetch, present)]
    IN  IF order = "reversed" THEN Reverse(parts) ELSE parts

\* The error lines batch_get_messages and parse_batch_response push
WithBatchErrors(report, errors) ==
    [report EXCEPT !.errors = @ \o [i \in DOMAIN errors |-> "batch"]]

\* sync_full: the loop over batch_result.messages
RECURSIVE GmailApplyBatch(_, _, _, _, _)
GmailApplyBatch(w, accts, acct, messages, report) ==
    IF messages = <<>> THEN [world |-> w, report |-> report]
    ELSE LET r == UpsertMessage(w, accts, acct, Head(messages), FALSE)
         IN  GmailApplyBatch(r.world, accts, acct, Tail(messages),
                             Counted(report, r.result))

\* batch_get_messages: the BatchParseResult of a response that arrived, and
\* `empty` (every id retryable, one error line) when the request failed
batch_get_messages(ids, outcome, fetch, present, order) ==
    IF outcome = "request_error"
    THEN BatchParse(<<>>, ids, <<[line |-> "batch request failed", id |-> None]>>, {}, 0)
    ELSE parse_batch_response(BatchResponse(ids, fetch, present, order), TRUE, ids)

\* The ids of a batch whose sub-response was a 200 or a permanent error
Settled(ids, outcome, fetch) ==
    IF outcome = "request_error" THEN {}
    ELSE {ids[i] : i \in {j \in DOMAIN ids : fetch[ids[j]] # "throttled"}}

\* The round loop of sync_full ends after a round that left nothing to retry
\* and after retry round MAX_BATCH_RETRIES
LastRound(retryable_ids, retry_round) ==
    retryable_ids = <<>> \/ retry_round = MAX_BATCH_RETRIES

\* One round of sync_full after batch_get_messages returned; what the writer
\* has not committed when the sync ends goes with the writer
GmailBatchRound(result, w, report, r) ==
    IF LastRound(result.retryable_ids, run.round)
    THEN Finish([w EXCEPT !.pending = w.committed],
                store_history_id(syncState, run.upto), TRUE, report, TRUE,
                [r EXCEPT !.report = report])
    ELSE Proceed(w, syncState,
                 [r EXCEPT !.report = report,
                           !.todo = result.retryable_ids,
                           !.round = run.round + 1])

\* `if let Err(e) = indexer.commit()` after the messages of a batch: the error
\* is a line of the report and the round goes on
GmailBatchCommitted(result, applied, commit, r) ==
    IF commit = "commit_error"
    THEN GmailBatchRound(result, applied.world,
                         [applied.report EXCEPT !.errors = Append(@, "commit")],
                         [r EXCEPT !.commitFailed = Some(applied.report)])
    ELSE GmailBatchRound(result, Commit(applied.world), applied.report, r)

GmailBatchApplied(result, commit, r) ==
    GmailBatchCommitted(result,
                        GmailApplyBatch(World, accounts, account, result.messages,
                                        WithBatchErrors(run.report, result.errors)),
                        commit, r)

\* The inputs a round does not read are held at one value: the answers to ids
\* that are not requested, the order of a response of one part, and the
\* sub-responses of a request that failed as a whole; the parts of a response
\* whose commit fails come in request order
ReadByBatch(ids, outcome, fetch, order) ==
    /\ \A id \in DOMAIN fetch :
           (outcome \in {"request_error", "token_error"}
            \/ \A i \in DOMAIN ids : ids[i] # id) => fetch[id] = "ok"
    /\ (outcome # "ok" \/ Len(ids) < 2) => order = "sent"

\* sync_full: one round of batch fetches (the ids of a round fit one batch of
\* BATCH_SIZE = 25), and store_history_id after the last round
GmailBatch(outcome, fetch, order) ==
    /\ run.pc = "gmail_batch"
    /\ ReadByBatch(run.todo, outcome, fetch, order)
    /\ IF outcome = "token_error"
       THEN Finish(World, syncState, FALSE, EmptyReport, FALSE, Failed(run))
       ELSE GmailBatchApplied(
                batch_get_messages(run.todo, outcome, fetch, PresentNow, order),
                outcome,
                [run EXCEPT !.settled = run.settled
                                        \cup Settled(run.todo, outcome, fetch),
                            !.failed = \/ run.failed
                                       \/ outcome = "request_error"
                                       \/ \E i \in DOMAIN run.todo :
                                              \/ fetch[run.todo[i]] # "ok"
                                              \/ run.todo[i] \notin PresentNow])

\* The texts sync_delta and apply_history_records look for in an error
NotFoundText == <<"4", "0", "4">>

HistoryIdText == <<"h", "i", "s", "t", "o", "r", "y", "I", "d">>

REDACTED_BODY_MAX_LEN == 200

DecimalDigits == <<"0", "1", "2", "3", "4", "5", "6", "7", "8", "9">>

\* A number printed by format!
RECURSIVE DecimalText(_)
DecimalText(n) ==
    IF n < 10 THEN <<DecimalDigits[n + 1]>>
    ELSE DecimalText(n \div 10) \o <<DecimalDigits[(n % 10) + 1]>>

\* StatusCode as format! prints it: the code and the canonical reason
NotFound == <<"4", "0", "4", " Not Found">>

Forbidden == <<"4", "0", "3", " Forbidden">>

ServerError == <<"5", "0", "0", " Internal Server Error">>

\* What a request of fetch_with_retry comes to: the provider's answer to it
\* (200, or 404 for a message or a history id it no longer has), no response
\* at all, or an error status with a body. A text is a sequence of
\* characters; a literal of the code that holds neither "404" nor
\* "historyId" is one element
ProviderAnswer == [kind |-> "answer", status |-> <<>>, body |-> <<>>]

SendFailed == [kind |-> "send", status |-> <<>>, body |-> <<>>]

ErrorStatus(status, body) == [kind |-> "status", status |-> status, body |-> body]

\* redact_response_body
redact_response_body(body) ==
    LET trimmed == Trim(body)
    IN  IF Len(trimmed) <= REDACTED_BODY_MAX_LEN THEN trimmed
        ELSE SubSeq(trimmed, 1, REDACTED_BODY_MAX_LEN) \o <<"...[truncated ">>
             \o DecimalText(Len(trimmed)) \o <<" bytes]">>

\* The URLs of get_message and list_history
MessageUrl(message_id) ==
    <<"https://gmail.googleapis.com/gmail/v1", "/users/me/messages/">>
        \o message_id \o <<"?format=full">>

HistoryUrl(start_history_id, page) ==
    <<"https://gmail.googleapis.com/gmail/v1", "/users/me/history?startHistoryId=">>
        \o DecimalText(start_history_id) \o <<"&maxResults=100">>
        \o (IF page > 0 THEN <<"&pageToken=">> \o DecimalText(page) ELSE <<>>)

\* format!("{error}") of the Err of fetch_with_retry: the context of a send
\* that failed, or the status and the redacted body
ErrorDisplay(result, url) ==
    IF result.kind = "send" THEN <<"gmail api request: ">> \o url
    ELSE <<"gmail api request failed: status=">> \o result.status
         \o <<" body=">> \o redact_response_body(result.body)

\* fetch_with_retry on a request the provider answers with 200 when
\* `found`, else with 404
fetch_with_retry(result, url, found) ==
    IF result.kind = "answer" /\ found THEN [ok |-> TRUE, text |-> <<>>]
    ELSE [ok |-> FALSE,
          text |-> ErrorDisplay(IF result.kind = "answer"
                                THEN ErrorStatus(NotFound, <<>>) ELSE result, url)]

get_message(message_id, result, present) ==
    fetch_with_retry(result, MessageUrl(message_id), message_id \in present)

list_history(start_history_id, page, result) ==
    fetch_with_retry(result, HistoryUrl(start_history_id, page),
                     ~IsStale(start_history_id))

\* apply_history_records on the Err of get_message: the text of the error
\* decides between removing the email and an error line
ReadAsGone(got) == ~got.ok /\ Contains(got.text, NotFoundText)

\* apply_history_records: a deleted message is removed; an added message is
\* fetched once per sync and upserted, removed when the error reads as 404,
\* left out with an error line on any other error
RECURSIVE GmailApplyRecords(_, _, _, _, _, _, _, _)
GmailApplyRecords(w, accts, acct, records, seen, report, fetch, present) ==
    IF records = <<>> THEN [world |-> w, seen |-> seen, report |-> report]
    ELSE LET rec == Head(records)
             got == get_message(rec.id, fetch[rec.id], present)
             r == IF rec.removed \/ ReadAsGone(got) THEN RemoveMessage(w, rec.id)
                  ELSE UpsertMessage(w, accts, acct, rec.id, TRUE)
         IN  IF ~rec.removed /\ rec.id \in seen
             THEN GmailApplyRecords(w, accts, acct, Tail(records), seen, report,
                                    fetch, present)
             ELSE IF ~rec.removed /\ ~got.ok /\ ~ReadAsGone(got)
             THEN GmailApplyRecords(w, accts, acct, Tail(records),
                                    seen \cup {rec.id},
                                    Counted(report, "Error"), fetch, present)
             ELSE GmailApplyRecords(r.world, accts, acct, Tail(records),
                                    IF rec.removed THEN seen ELSE seen \cup {rec.id},
                                    Counted(report, r.result), fetch, present)

\* The ids apply_history_records fetches on a page: those of its added
\* messages that no earlier record of the sync named
FetchedOn(records, seen) ==
    {records[i].id : i \in {j \in DOMAIN records : ~records[j].removed}} \ seen

\* sync_delta on the Err of list_history: the text of the error decides
\* between the fallback to sync_full and returning the error
ReadAsExpired(listed) ==
    ~listed.ok /\ (Contains(listed.text, NotFoundText)
                   \/ Contains(listed.text, HistoryIdText))

\* sync_delta, one page of list_history
GmailHistoryPage(response, fetch) ==
    /\ run.pc = "gmail_history"
    /\ LET listed == list_history(Unwrap(run.cursorBefore), run.page, response)
       IN  IF ReadAsExpired(listed)
           THEN Proceed(World, syncState,
                        [Rejected(run) EXCEPT !.pc = "gmail_profile",
                                              !.mode = "bootstrap",
                                              !.report = EmptyReport])
           ELSE IF ~listed.ok
           THEN Finish(World, syncState, FALSE, EmptyReport, FALSE, Failed(run))
           ELSE LET records == PageOf(run.entries, run.page)
                    applied == GmailApplyRecords(World, accounts, account, records,
                                                 run.seen, run.report, fetch,
                                                 PresentNow)
                    fetched == FetchedOn(records, run.seen)
                    more == HasNextPage(run.entries, run.page)
                    table == StoreWhenDone(syncState, HistoryIdKey,
                                           BoundaryAfter(Unwrap(run.cursorBefore),
                                                         run.page, run.upto),
                                           ~more)
                    r == [run EXCEPT !.page = run.page + 1,
                                     !.pagesDone = run.pagesDone + 1,
                                     !.seen = applied.seen,
                                     !.report = applied.report,
                                     !.gone = run.gone \cup
                                         {id \in fetched :
                                             ReadAsGone(get_message(id, fetch[id],
                                                                    PresentNow))},
                                     !.notFound = run.notFound \cup
                                         {id \in fetched :
                                             /\ fetch[id].kind = "answer"
                                             /\ id \notin PresentNow},
                                     !.failed = run.failed
                                                \/ Len(applied.report.errors)
                                                   > Len(run.report.errors)]
                IN  IF more THEN Proceed(applied.world, table, r)
                    ELSE Finish(applied.world, table, TRUE, applied.report, TRUE, r)

\* The process is stopped between two steps of a sync
Cancel ==
    /\ run.pc # "idle"
    /\ run' = IdleRun
    /\ idxPending' = idxCommitted
    /\ last' = [op |-> "sync", ok |-> FALSE, cancelled |-> TRUE,
                report |-> EmptyReport, mode |-> run.mode, stale |-> run.stale,
                staleHorizon |-> run.staleHorizon, failed |-> run.failed,
                pagesDone |-> run.pagesDone, cursorBefore |-> run.cursorBefore,
                stored |-> FALSE, unchanged |-> (emails = run.emailsBefore),
                nth |-> ghost.syncs, prev |-> ghost.prev,
                quiet |-> ~ghost.changedSincePrevStart,
                upserts |-> run.tally, commitFailed |-> run.commitFailed,
                gone |-> run.gone, notFound |-> run.notFound]
    /\ ghost' = [ghost EXCEPT !.prev = "cancelled"]
    /\ UNCHANGED envVars
    /\ UNCHANGED <<accounts, emails, idxCommitted, account, mailbox, horizon,
                   syncState, contacts>>

\* The provider's side: a message arrives, a message is removed, and change
\* history older than now is dropped
Changed == [ghost EXCEPT !.changedSinceStart = TRUE, !.changedSincePrevStart = TRUE]

ProviderDeliver(id) ==
    /\ Len(mailbox) < MaxChanges
    /\ \A i \in DOMAIN mailbox : mailbox[i].id # id
    /\ mailbox' = Append(mailbox, Event(id, FALSE))
    /\ ghost' = Changed
    /\ last' = [op |-> "provider"]
    /\ UNCHANGED envVars
    /\ UNCHANGED <<accounts, emails, idxPending, idxCommitted, account, horizon, syncState, contacts, run>>

\* A message arrives whose receivedDateTime is not a timestamp
ProviderDeliverMalformed(id) ==
    /\ Len(mailbox) < MaxChanges
    /\ \A i \in DOMAIN mailbox : mailbox[i].id # id
    /\ mailbox' = Append(mailbox, MalformedEvent(id))
    /\ ghost' = Changed
    /\ last' = [op |-> "provider"]
    /\ UNCHANGED envVars
    /\ UNCHANGED <<accounts, emails, idxPending, idxCommitted, account, horizon, syncState, contacts, run>>

ProviderRemove(id) ==
    /\ Len(mailbox) < MaxChanges
    /\ id \in PresentNow
    /\ mailbox' = Append(mailbox, Event(id, TRUE))
    /\ ghost' = Changed
    /\ last' = [op |-> "provider"]
    /\ UNCHANGED envVars
    /\ UNCHANGED <<accounts, emails, idxPending, idxCommitted, account, horizon, syncState, contacts, run>>

ProviderExpire ==
    /\ horizon < Len(mailbox)
    /\ horizon' = Len(mailbox)
    /\ ghost' = Changed
    /\ last' = [op |-> "provider"]
    /\ UNCHANGED envVars
    /\ UNCHANGED <<accounts, emails, idxPending, idxCommitted, account, mailbox, syncState, contacts, run>>

FetchOutcomes == [MessageIds -> {"ok", "throttled", "failed"}]

\* What the requests of an incremental sync come to: the provider's answer,
\* or no response
GetOutcomes == [MessageIds -> {ProviderAnswer, SendFailed}]

\* One of the two accounts is synced; nothing is ingested and no cursor is stored
InitSync ==
    /\ accounts = {}
    /\ emails = {}
    /\ idxPending = <<>>
    /\ idxCommitted = <<>>
    /\ last = [op |-> "init"]
    /\ account \in {GraphAccount, GmailAccount}
    /\ mailbox = <<>>
    /\ horizon = 0
    /\ syncState = {}
    /\ contacts = {}
    /\ run = IdleRun
    /\ ghost = NoHistory
    /\ tokenKey = KeyUnset
    /\ now = 0
    /\ tables = SchemaTables

NextSync ==
    \/ \E outcome \in {"ok", "discover_error"} : GraphSyncStart(outcome)
    \/ \E outcome \in {"ok", "error"} : GraphEnumeratePage(outcome)
    \/ \E outcome \in {"ok", "error"} : GraphBaselinePage(outcome)
    \/ \E outcome \in {"ok", "error", "stale"} : GraphDeltaPage(outcome)
    \/ \E outcome \in {"ok", "token_error"} : GmailSyncStart(outcome)
    \/ \E outcome \in {"ok", "error"} : GmailProfile(outcome)
    \/ \E outcome \in {"ok", "error"} : GmailList(outcome)
    \/ \E outcome \in {"ok", "token_error"}, fetch \in FetchOutcomes :
           GmailBatch(outcome, fetch, "sent")
    \/ \E response \in {ProviderAnswer, SendFailed}, fetch \in GetOutcomes :
           GmailHistoryPage(response, fetch)
    \/ Cancel
    \/ \E id \in MessageIds : ProviderDeliver(id)
    \/ \E id \in MessageIds : ProviderRemove(id)
    \/ ProviderExpire

SpecSync == InitSync /\ [][NextSync]_vars

-----------------------------------------------------------------------------
(* search/filters.rs: the date bounds of the planner *)

\* start_of_day: 00:00:00 UTC of the date
start_of_day(date) == [ok |-> TRUE, day |-> date, sec |-> 0, us |-> 0]

\* end_of_day: 23:59:59.999999 UTC of the date
end_of_day(date) == [ok |-> TRUE, day |-> date, sec |-> 86399, us |-> 999999]

\* The RangeQuery of to_tantivy_query on received_at: both bounds included,
\* an absent bound unbounded
PlannerDateRange(doc, filters) ==
    /\ IsSome(filters.since) =>
           TimestampLE(start_of_day(Unwrap(filters.since)), doc.received_at)
    /\ IsSome(filters.until) =>
           TimestampLE(doc.received_at, end_of_day(Unwrap(filters.until)))

-----------------------------------------------------------------------------
(* connectors/json_archive.rs: the archive importer *)

\* The number of .json files of an imported path
MaxFiles == 2

\* A file of an archive: one that holds a JSON payload with an id, or one that
\* does not parse or has no id
ArchiveFile(payload) == [readable |-> TRUE, payload |-> payload]

UnreadableFile == [readable |-> FALSE, payload |-> EmailA1]

\* Two files that encode email A differently, one whose received_at is no
\* timestamp, one that is unreadable
ArchiveFiles ==
    {ArchiveFile(EmailA1), ArchiveFile(EmailA2), ArchiveFile(EmailB2), UnreadableFile}

\* collect_json_files: the files of a path in sorted order
ArchivePaths ==
    UNION {[1..n -> ArchiveFiles] : n \in 0..MaxFiles}

\* The account an import is run for, as configured by the operator
ArchiveAccounts ==
    {[account_id |-> AccPro, account_type |-> Professional],
     [account_id |-> AccPro, account_type |-> Personal],
     [account_id |-> AccPer, account_type |-> Personal]}

\* map_archive_payload: the email of the payload, owned by the importing
\* account, with the source file in its metadata
map_archive_payload(file, acct) ==
    [ok |-> file.readable,
     email |-> [file.payload EXCEPT !.account_id = Some(acct.account_id),
                                    !.metadata = Some("object")]]

\* import_file: Ok(true), Ok(false) or Err, with the Store, Index and
\* contacts it leaves behind
import_file(w, acct, file) ==
    LET mapped == map_archive_payload(file, acct)
        email == mapped.email
        indexed == index_email_document(w.pending, email, acct.account_type)
        stored == [w EXCEPT !.emails = InsertOrReplaceEmail(w.emails, email)]
    IN  IF ~mapped.ok THEN [world |-> w, result |-> "error"]
        ELSE IF IsSome(get_email(w.emails, email.id))
        THEN [world |-> w, result |-> "skipped"]
        ELSE IF ~indexed.ok
        THEN [world |-> [stored EXCEPT !.pending = indexed.docs], result |-> "error"]
        ELSE [world |-> [stored EXCEPT !.pending = indexed.docs,
                                       !.committed = indexed.docs,
                                       !.contacts = update_contact_stats(w.contacts, email)],
              result |-> "imported"]

EmptyImportReport == [files_processed |-> 0, emails_imported |-> 0, errors |-> 0]

\* The loop of import over the files
RECURSIVE ImportFiles(_, _, _, _)
ImportFiles(w, acct, files, report) ==
    IF files = <<>> THEN [world |-> w, report |-> report]
    ELSE LET r == import_file(w, acct, Head(files))
             counted == [report EXCEPT
                 !.files_processed = @ + 1,
                 !.emails_imported = IF r.result = "imported" THEN @ + 1 ELSE @,
                 !.errors = IF r.result = "error" THEN @ + 1 ELSE @]
         IN  ImportFiles(r.world, acct, Tail(files), counted)

\* JsonArchiveConnector::import: insert_account, then every file of the path
Import(acct, path) ==
    LET accts == InsertOrReplaceAccount(accounts, acct.account_id, acct.account_type)
        r == ImportFiles(World, acct, path, EmptyImportReport)
    IN  /\ accounts' = accts
        /\ emails' = r.world.emails
        /\ idxPending' = r.world.pending
        /\ idxCommitted' = r.world.committed
        /\ contacts' = r.world.contacts
        /\ last' = [op |-> "import", ok |-> TRUE, report |-> r.report,
                    path |-> path, account |-> acct,
                    emailsBefore |-> emails, indexBefore |-> idxCommitted,
                    contactsBefore |-> contacts,
                    repeated |-> /\ last.op = "import"
                                 /\ last.path = path
                                 /\ last.account = acct]
        /\ UNCHANGED envVars
        /\ UNCHANGED <<account, mailbox, horizon, syncState, run, ghost>>

\* The searches of one scope each
ScopeInputs ==
    {[DefaultFilters EXCEPT !.scope = s] : s \in {"professional", "personal", "all"}}

\* Nothing is configured and nothing is ingested yet
InitImport ==
    /\ accounts = {}
    /\ emails = {}
    /\ idxPending = <<>>
    /\ idxCommitted = <<>>
    /\ last = [op |-> "open", ok |-> TRUE]
    /\ SyncIdle

NextImport ==
    \/ \E acct \in ArchiveAccounts, path \in ArchivePaths : Import(acct, path)
    \/ Reindex
    \/ \E f \in ScopeInputs : SearchEmails(<<>>, f)

\* Archive imports, each of which upserts its account, interleaved with
\* reindexes and searches
SpecImport == InitImport /\ [][NextImport]_vars

-----------------------------------------------------------------------------
(* connectors: the page-fetch helpers and their retry loop *)

MAX_RATE_LIMIT_RETRIES == 5

\* The cap of (backoff_seconds * 2).min(32)
MAX_BACKOFF_SECONDS == 32

\* let mut backoff_seconds = 1u64
INITIAL_BACKOFF_SECONDS == 1

\* The helpers with the loop of fetch_delta_page_with_retry
PageHelpers == {"fetch_delta_page_with_retry", "fetch_folder_page_with_retry",
                "fetch_messages_page_with_retry", "fetch_with_retry"}

FetchHelpers == PageHelpers \cup {"batch_get_messages"}

\* A retry-after header: absent, a whole number of seconds, or an HTTP date
NoRetryAfter == [kind |-> "absent", seconds |-> 0]

RetryAfterSeconds(n) == [kind |-> "seconds", seconds |-> n]

RetryAfterDate == [kind |-> "date", seconds |-> 0]

\* value.parse::<u64>().ok()
ParseU64(header) == IF header.kind = "seconds" THEN Some(header.seconds) ELSE None

\* What the provider answers to one request: a status with its retry-after
\* header, or no response at all
Response(status, header) == [status |-> status, retry_after |-> header]

Responses ==
    {Response(429, h) : h \in {NoRetryAfter, RetryAfterSeconds(7),
                               RetryAfterSeconds(40), RetryAfterDate}}
    \cup {Response(200, NoRetryAfter), Response(503, NoRetryAfter),
          Response(0, NoRetryAfter)}

\* .unwrap_or(backoff_seconds)
RetryDelay(response, backoff_seconds) ==
    IF IsSome(ParseU64(response.retry_after)) THEN Unwrap(ParseU64(response.retry_after))
    ELSE backoff_seconds

\* backoff_seconds = (backoff_seconds * 2).min(32)
NextBackoff(backoff_seconds) == Min(backoff_seconds * 2, MAX_BACKOFF_SECONDS)

\* A helper call in flight: the loop variables, the requests sent, the
\* responses received and the sleeps taken so far
FetchCall(helper) ==
    [op |-> "fetch", ok |-> TRUE, helper |-> helper, attempt |-> 0,
     backoff_seconds |-> INITIAL_BACKOFF_SECONDS, responses |-> <<>>,
     sleeps |-> <<>>, result |-> "pending", error_lines |-> 0]

Answered(call, response) == [call EXCEPT !.responses = Append(@, response)]

Slept(call, seconds) ==
    [call EXCEPT !.sleeps = Append(@, seconds),
                 !.backoff_seconds = NextBackoff(@),
                 !.attempt = @ + 1]

Returned(call, result) == [call EXCEPT !.result = result, !.ok = result = "ok"]

\* One turn of the loop of the page helpers: a request that failed to send
\* returns the error, a 429 on the last attempt returns the error without
\* sleeping, any other 429 sleeps and goes round again
PageHelperStep(call, response) ==
    LET c == Answered(call, response)
    IN  IF response.status = 0 THEN Returned(c, "err")
        ELSE IF response.status = 429
        THEN IF c.attempt = MAX_RATE_LIMIT_RETRIES THEN Returned(c, "err")
             ELSE Slept(c, RetryDelay(response, c.backoff_seconds))
        ELSE IF response.status = 200 THEN Returned(c, "ok")
        ELSE Returned(c, "err")

\* The end of the loop of batch_get_messages: report.errors.push(last_error)
\* and every id handed back as retryable
BatchLoopEnd(call) ==
    IF call.attempt > MAX_RATE_LIMIT_RETRIES
    THEN Returned([call EXCEPT !.error_lines = @ + 1], "empty")
    ELSE call

\* One turn of the loop of batch_get_messages: a request that failed to send
\* is retried after the backoff, every 429 sleeps before the loop goes on
BatchHelperStep(call, response) ==
    LET c == Answered(call, response)
        failed == Returned([c EXCEPT !.error_lines = @ + 1], "empty")
    IN  IF response.status = 0
        THEN IF c.attempt < MAX_RATE_LIMIT_RETRIES THEN Slept(c, c.backoff_seconds)
             ELSE failed
        ELSE IF response.status = 429
        THEN BatchLoopEnd(Slept(c, RetryDelay(response, c.backoff_seconds)))
        ELSE IF response.status = 200 THEN Returned(c, "ok")
        ELSE failed

\* A helper is called
StartFetch(helper) ==
    /\ last.op = "fetch" => last.result # "pending"
    /\ last' = FetchCall(helper)
    /\ UNCHANGED <<accounts, emails, idxPending, idxCommitted>>
    /\ UNCHANGED syncVars

\* The provider answers the request of the current attempt
ReceiveResponse(response) ==
    /\ last.op = "fetch"
    /\ last.result = "pending"
    /\ last' = IF last.helper \in PageHelpers THEN PageHelperStep(last, response)
               ELSE BatchHelperStep(last, response)
    /\ UNCHANGED <<accounts, emails, idxPending, idxCommitted>>
    /\ UNCHANGED syncVars

InitFetch ==
    /\ accounts = {}
    /\ emails = {}
    /\ idxPending = <<>>
    /\ idxCommitted = <<>>
    /\ last = [op |-> "open", ok |-> TRUE]
    /\ SyncIdle

NextFetch ==
    \/ \E helper \in FetchHelpers : StartFetch(helper)
    \/ \E response \in Responses : ReceiveResponse(response)

\* The helpers called against a provider that answers as it likes
SpecFetch == InitFetch /\ [][NextFetch]_vars

-----------------------------------------------------------------------------
(* connectors: the access-token cache in sync_state *)

CACHE_SKEW_SECONDS == 60

TOKEN_CACHE_ENVELOPE_VERSION == 1

\* Two valid 64-hex keys, and a value that is not 64 hex characters
KeyOne == "k1"

KeyTwo == "k2"

KeyInvalid == "invalid"

TokenKeys == {KeyUnset, KeyOne, KeyTwo, KeyInvalid}

\* token_cache_key
TokenCacheKey(acct) ==
    IF acct.provider = "graph" THEN "graph_api_token:account"
    ELSE "gmail_access_token:account"

\* token_cache_encryption_key: Ok(None) when unset or blank, Err when the
\* value is not 32 bytes of hex
token_cache_encryption_key(env) ==
    [ok |-> env # KeyInvalid,
     key |-> IF env \in {KeyOne, KeyTwo} THEN Some(env) ELSE None]

CachedAccessToken(access_token, expires_at) ==
    [access_token |-> access_token, expires_at |-> expires_at]

\* A sync_state value that is the JSON of a CachedAccessToken, as written
\* before the cache was encrypted
LegacyPlaintext(token) ==
    [form |-> "plaintext", version |-> 0, nonce_hex |-> <<>>, ciphertext_hex |-> <<>>,
     key |-> "none", token |-> token]

\* CachedAccessToken::is_expired as the code has it, and with the skew applied
\* at the comparison
ExpiredWithinSkew(token, clock) == token.expires_at < clock + CACHE_SKEW_SECONDS

is_expired(token, clock) == token.expires_at <= clock

\* encrypt_cached_access_token: the envelope of version, nonce_hex and
\* ciphertext_hex; the ciphertext seals the token's JSON under the key and
\* the random nonce, and its hex text is whatever AES-GCM produces
PlaintextEnvelope(token, key, nonce_hex, ciphertext_hex) == LegacyPlaintext(token)

encrypt_cached_access_token(token, key, nonce_hex, ciphertext_hex) ==
    [form |-> "envelope", version |-> TOKEN_CACHE_ENVELOPE_VERSION,
     nonce_hex |-> nonce_hex, ciphertext_hex |-> ciphertext_hex,
     key |-> key, token |-> token]

\* decrypt_cached_access_token: the envelope must parse, carry the supported
\* version, and open under the key
decrypt_cached_access_token(raw, key) ==
    IF /\ raw.form = "envelope"
       /\ raw.version = TOKEN_CACHE_ENVELOPE_VERSION
       /\ raw.key = key
    THEN Some(raw.token) ELSE None

\* serde_json::from_str::<CachedAccessToken>(&raw)
ParseLegacyToken(raw) == IF raw.form = "plaintext" THEN Some(raw.token) ELSE None

\* The text of a sync_state value
EnvelopeText(raw) ==
    <<"{", "\"", "v", "e", "r", "s", "i", "o", "n", "\"", ":", "1", ",",
      "\"", "n", "o", "n", "c", "e", "_", "h", "e", "x", "\"", ":", "\"">>
    \o raw.nonce_hex \o
    <<"\"", ",", "\"", "c", "i", "p", "h", "e", "r", "t", "e", "x", "t", "_",
      "h", "e", "x", "\"", ":", "\"">>
    \o raw.ciphertext_hex \o <<"\"", "}">>

PlaintextText(raw) ==
    <<"{", "\"", "a", "c", "c", "e", "s", "s", "_", "t", "o", "k", "e", "n",
      "\"", ":", "\"">>
    \o raw.token.access_token \o
    <<"\"", ",", "\"", "e", "x", "p", "i", "r", "e", "s", "_", "a", "t", "\"",
      ":", "\"", ToString(raw.token.expires_at), "\"", "}">>

RawText(raw) == IF raw.form = "envelope" THEN EnvelopeText(raw) ELSE PlaintextText(raw)

\* store_token as the code has it, and without the test for a missing key
StoreTokenUnguarded(table, acct, token, env, nonce_hex, ciphertext_hex) ==
    LET k == token_cache_encryption_key(env)
        value == IF IsSome(k.key)
                 THEN encrypt_cached_access_token(token, Unwrap(k.key), nonce_hex,
                                                  ciphertext_hex)
                 ELSE LegacyPlaintext(token)
    IN  IF ~k.ok THEN [ok |-> FALSE, table |-> table]
        ELSE [ok |-> TRUE, table |-> set_sync_state(table, TokenCacheKey(acct), value)]

store_token(table, acct, token, env, nonce_hex, ciphertext_hex) ==
    LET k == token_cache_encryption_key(env)
    IN  IF ~k.ok THEN [ok |-> FALSE, table |-> table]
        ELSE IF k.key = None THEN [ok |-> TRUE, table |-> table]
        ELSE [ok |-> TRUE,
              table |-> set_sync_state(table, TokenCacheKey(acct),
                            encrypt_cached_access_token(token, Unwrap(k.key),
                                                        nonce_hex, ciphertext_hex))]

\* The one-time migration of cached_token as the code has it, and without the
\* store_token call
KeepLegacy(table, acct, token, env, nonce_hex, ciphertext_hex) == table

MigrateLegacy(table, acct, token, env, nonce_hex, ciphertext_hex) ==
    store_token(table, acct, token, env, nonce_hex, ciphertext_hex).table

\* cached_token: Ok(Some(token)), Ok(None) or Err, and the table it leaves
cached_token(table, acct, env, clock, nonce_hex, ciphertext_hex) ==
    LET cache_key == TokenCacheKey(acct)
        state == get_sync_state(table, cache_key)
        k == token_cache_encryption_key(env)
        cleared == clear_sync_state(table, cache_key)
    IN  IF state = None THEN [ok |-> TRUE, token |-> None, table |-> table]
        ELSE IF ~k.ok THEN [ok |-> FALSE, token |-> None, table |-> table]
        ELSE IF k.key = None THEN [ok |-> TRUE, token |-> None, table |-> cleared]
        ELSE LET raw == Unwrap(state)
                 decrypted == decrypt_cached_access_token(raw, Unwrap(k.key))
                 legacy == ParseLegacyToken(raw)
                 cached == IF IsSome(decrypted) THEN Unwrap(decrypted) ELSE Unwrap(legacy)
                 kept == IF IsSome(decrypted) THEN table
                         ELSE MigrateLegacy(table, acct, cached, env, nonce_hex,
                                            ciphertext_hex)
             IN  IF decrypted = None /\ legacy = None
                 THEN [ok |-> TRUE, token |-> None, table |-> cleared]
                 ELSE IF is_expired(cached, clock)
                 THEN [ok |-> TRUE, token |-> None,
                       table |-> clear_sync_state(kept, cache_key)]
                 ELSE [ok |-> TRUE, token |-> Some(cached), table |-> kept]

\* The answer of the token endpoint
TokenResponse(ok, access_token, expires_in) ==
    [ok |-> ok, access_token |-> access_token, expires_in |-> expires_in]

\* fetch_token: expires_at = now + expires_in - CACHE_SKEW_SECONDS
fetch_token(response, clock) ==
    [ok |-> response.ok,
     token |-> CachedAccessToken(response.access_token,
                                 clock + response.expires_in - CACHE_SKEW_SECONDS)]

\* get_access_token: the cached token, or else a fresh one that is stored
get_access_token(table, acct, env, clock, nonce_hex, ciphertext_hex, response) ==
    LET c == cached_token(table, acct, env, clock, nonce_hex, ciphertext_hex)
        f == fetch_token(response, clock)
        s == store_token(c.table, acct, f.token, env, nonce_hex, ciphertext_hex)
    IN  IF ~c.ok
        THEN [ok |-> FALSE, access_token |-> None, table |-> c.table, fetched |-> FALSE]
        ELSE IF IsSome(c.token)
        THEN [ok |-> TRUE, access_token |-> Some(Unwrap(c.token).access_token),
              table |-> c.table, fetched |-> FALSE]
        ELSE IF ~f.ok
        THEN [ok |-> FALSE, access_token |-> None, table |-> c.table, fetched |-> TRUE]
        ELSE [ok |-> s.ok,
              access_token |-> IF s.ok THEN Some(f.token.access_token) ELSE None,
              table |-> s.table, fetched |-> TRUE]

\* The clock stops here
MaxClock == 90

\* The step of the clock, in seconds
TickSeconds == 30

\* access_token values: one made of characters that also occur in an
\* envelope, one with a character that does not
AccessTokens == {<<"e">>, <<"T", "e">>}

\* The nonce and ciphertext hex an encryption may come out with
SealOutcomes ==
    {[nonce_hex |-> <<"0", "f">>, ciphertext_hex |-> <<"9", "c">>],
     [nonce_hex |-> <<"a", "1">>, ciphertext_hex |-> <<"e", "3">>]}

\* The lifetimes the token endpoint grants
ExpiresIn == {30, 60, 120}

TokenResponses ==
    {TokenResponse(TRUE, t, x) : t \in AccessTokens, x \in ExpiresIn}
    \cup {TokenResponse(FALSE, <<>>, 0)}

\* The tokens handed to store_token
TokensToStore ==
    {CachedAccessToken(t, now + d) : t \in AccessTokens, d \in {0, 30, 60}}

\* The sync_state value under the account's token-cache key
TokenEntry == get_sync_state(syncState, TokenCacheKey(account))

\* A call of store_token
StoreToken(token) ==
    \E seal \in SealOutcomes :
        LET r == store_token(syncState, account, token, tokenKey, seal.nonce_hex,
                             seal.ciphertext_hex)
        IN  /\ syncState' = r.table
            /\ last' = [op |-> "store_token", ok |-> r.ok, token |-> Some(token),
                        fetched |-> FALSE, before |-> TokenEntry]
            /\ UNCHANGED <<accounts, emails, idxPending, idxCommitted>>
            /\ UNCHANGED <<account, mailbox, horizon, contacts, run, ghost, tokenKey, now, tables>>

\* A call of cached_token
CachedToken ==
    \E seal \in SealOutcomes :
        LET r == cached_token(syncState, account, tokenKey, now, seal.nonce_hex,
                              seal.ciphertext_hex)
        IN  /\ syncState' = r.table
            /\ last' = [op |-> "cached_token", ok |-> r.ok, token |-> r.token,
                        fetched |-> FALSE, before |-> TokenEntry]
            /\ UNCHANGED <<accounts, emails, idxPending, idxCommitted>>
            /\ UNCHANGED <<account, mailbox, horizon, contacts, run, ghost, tokenKey, now, tables>>

\* A call of get_access_token against the token endpoint
GetAccessToken(response) ==
    \E seal \in SealOutcomes :
        LET r == get_access_token(syncState, account, tokenKey, now, seal.nonce_hex,
                                  seal.ciphertext_hex, response)
        IN  /\ syncState' = r.table
            /\ last' = [op |-> "get_access_token", ok |-> r.ok,
                        token |-> r.access_token, fetched |-> r.fetched,
                        before |-> TokenEntry]
            /\ UNCHANGED <<accounts, emails, idxPending, idxCommitted>>
            /\ UNCHANGED <<account, mailbox, horizon, contacts, run, ghost, tokenKey, now, tables>>

\* The operator sets, changes or removes ESS_TOKEN_CACHE_KEY between two runs
SetTokenKey(env) ==
    /\ tokenKey # env
    /\ tokenKey' = env
    /\ last' = [op |-> "set_key", ok |-> TRUE, token |-> None, fetched |-> FALSE,
                before |-> TokenEntry]
    /\ UNCHANGED <<accounts, emails, idxPending, idxCommitted>>
    /\ UNCHANGED <<account, mailbox, horizon, syncState, contacts, run, ghost, now, tables>>

\* Time passes
Tick ==
    /\ now < MaxClock
    /\ now' = now + TickSeconds
    /\ last' = [op |-> "tick", ok |-> TRUE, token |-> None, fetched |-> FALSE,
                before |-> TokenEntry]
    /\ UNCHANGED <<accounts, emails, idxPending, idxCommitted>>
    /\ UNCHANGED <<account, mailbox, horizon, syncState, contacts, run, ghost, tokenKey, tables>>

\* A database as the version before the encrypted cache may have left it:
\* no cached token, or one in plaintext
InitToken ==
    /\ accounts = {}
    /\ emails = {}
    /\ idxPending = <<>>
    /\ idxCommitted = <<>>
    /\ last = [op |-> "open", ok |-> TRUE, token |-> None, fetched |-> FALSE,
               before |-> None]
    /\ account \in {GraphAccount, GmailAccount}
    /\ mailbox = <<>>
    /\ horizon = 0
    /\ \E legacy \in {CachedAccessToken(t, x) : t \in AccessTokens, x \in {30, 120}} :
           syncState \in {{}, {[key |-> TokenCacheKey(account),
                                value |-> LegacyPlaintext(legacy)]}}
    /\ contacts = {}
    /\ run = IdleRun
    /\ ghost = NoHistory
    /\ tokenKey \in TokenKeys
    /\ now = 0
    /\ tables = SchemaTables

NextToken ==
    \/ \E token \in TokensToStore : StoreToken(token)
    \/ CachedToken
    \/ \E response \in TokenResponses : GetAccessToken(response)
    \/ \E env \in TokenKeys : SetTokenKey(env)
    \/ Tick

\* The token cache under every configuration of the key, as time passes
SpecToken == InitToken /\ [][NextToken]_vars

-----------------------------------------------------------------------------
(* connectors/graph_api.rs: the delta link of a folder and its legacy keys *)

\* DiscoveredFolder
Folder(folder_id, display_name) ==
    [folder_id |-> folder_id, display_name |-> display_name]

\* delta_link_key
delta_link_key(folder) == "graph_delta_link:account:" \o folder.folder_id

\* legacy_wellknown_delta_link_key
legacy_wellknown_delta_link_key(graph_name) == "graph_delta_link:account:" \o graph_name

\* legacy_delta_link_key
legacy_delta_link_key == "graph_delta_link:account"

\* legacy_delta_key_name
legacy_delta_key_name(display_name) ==
    LET name == AsciiLower(Trim(display_name))
    IN  CASE name = <<"i", "n", "b", "o", "x">> -> Some("inbox")
          [] name = <<"s", "e", "n", "t", " ", "i", "t", "e", "m", "s">> -> Some("sentitems")
          [] name = <<"a", "r", "c", "h", "i", "v", "e">> -> Some("archive")
          [] name = <<"d", "r", "a", "f", "t", "s">> -> Some("drafts")
          [] name = <<"d", "e", "l", "e", "t", "e", "d", " ", "i", "t", "e", "m", "s">>
                 -> Some("deleteditems")
          [] name = <<"j", "u", "n", "k", " ", "e", "m", "a", "i", "l">> -> Some("junkemail")
          [] OTHER -> None

\* folder.display_name.trim().eq_ignore_ascii_case("inbox")
IsInboxFolder(folder) ==
    EqIgnoreAsciiCase(Trim(folder.display_name), <<"i", "n", "b", "o", "x">>)

\* db.get_sync_state(key)?.and_then(value).map(trim).filter(non-empty)
StoredLink(table, key) == TrimmedNonEmpty(get_sync_state(table, key))

\* The migration of a legacy value: written under the folder key, removed
\* under the legacy key -- and a variant that leaves the legacy key in place
CopyLegacyLink(table, key, legacy_key, value) == set_sync_state(table, key, value)

MoveLegacyLink(table, key, legacy_key, value) ==
    clear_sync_state(set_sync_state(table, key, value), legacy_key)

\* load_delta_link for a folder, over the text of the stored values
LoadDeltaLink(table, folder) ==
    LET key == delta_link_key(folder)
        value == StoredLink(table, key)
        legacy_name == legacy_delta_key_name(folder.display_name)
        legacy_wk_key == legacy_wellknown_delta_link_key(Unwrap(legacy_name))
    IN  IF IsSome(value) THEN [value |-> value, table |-> table]
        ELSE IF IsSome(legacy_name) /\ IsSome(StoredLink(table, legacy_wk_key))
        THEN [value |-> StoredLink(table, legacy_wk_key),
              table |-> MoveLegacyLink(table, key, legacy_wk_key,
                                       Unwrap(StoredLink(table, legacy_wk_key)))]
        ELSE IF IsInboxFolder(folder) /\ IsSome(StoredLink(table, legacy_delta_link_key))
        THEN [value |-> StoredLink(table, legacy_delta_link_key),
              table |-> MoveLegacyLink(table, key, legacy_delta_link_key,
                                       Unwrap(StoredLink(table, legacy_delta_link_key)))]
        ELSE [value |-> None, table |-> table]

\* The folders of the mailbox: the inbox, a well-known folder that is not the
\* inbox, and a folder of the user's
InboxFolder == Folder("id-inbox", <<"I", "n", "b", "o", "x", " ">>)

SentFolder == Folder("id-sent", <<"S", "e", "n", "t", " ", "i", "t", "e", "m", "s">>)

CustomFolder == Folder("id-kb", <<"K", "b">>)

Folders == {InboxFolder, SentFolder, CustomFolder}

\* The keys of earlier versions
LegacyLinkKeys ==
    {legacy_wellknown_delta_link_key("inbox"),
     legacy_wellknown_delta_link_key("sentitems"),
     legacy_delta_link_key}

\* Stored texts: a link, a link padded with a blank, and nothing but a blank
LegacyLinkTexts == {<<"u">>, <<" ", "v">>, <<" ">>}

\* The delta links the provider hands out
FreshLinks == {<<"n">>}

\* A call of load_delta_link
LoadLink(folder) ==
    LET r == LoadDeltaLink(syncState, folder)
    IN  /\ syncState' = r.table
        /\ last' = [op |-> "load_delta_link", ok |-> TRUE, folder |-> folder,
                    value |-> r.value, before |-> syncState]
        /\ UNCHANGED <<accounts, emails, idxPending, idxCommitted>>
        /\ UNCHANGED <<account, mailbox, horizon, contacts, run, ghost, tokenKey, now, tables>>

\* A call of store_delta_link at the end of a sync of the folder
StoreLink(folder, link) ==
    /\ syncState' = set_sync_state(syncState, delta_link_key(folder), link)
    /\ last' = [op |-> "store_delta_link", ok |-> TRUE, folder |-> folder,
                value |-> Some(link), before |-> syncState]
    /\ UNCHANGED <<accounts, emails, idxPending, idxCommitted>>
    /\ UNCHANGED <<account, mailbox, horizon, contacts, run, ghost, tokenKey, now, tables>>

\* A database as an earlier version left it: delta links under legacy keys
\* only, or no delta link at all
InitLink ==
    /\ accounts = {}
    /\ emails = {}
    /\ idxPending = <<>>
    /\ idxCommitted = <<>>
    /\ last = [op |-> "open", ok |-> TRUE]
    /\ account = GraphAccount
    /\ mailbox = <<>>
    /\ horizon = 0
    /\ \E held \in SUBSET LegacyLinkKeys :
       \E text \in [held -> LegacyLinkTexts] :
           syncState = {[key |-> k, value |-> text[k]] : k \in held}
    /\ contacts = {}
    /\ run = IdleRun
    /\ ghost = NoHistory
    /\ tokenKey = KeyUnset
    /\ now = 0
    /\ tables = SchemaTables

NextLink ==
    \/ \E folder \in Folders : LoadLink(folder)
    \/ \E folder \in Folders, link \in FreshLinks : StoreLink(folder, link)

\* The delta links of the folders loaded and stored over databases of every
\* earlier layout
SpecLink == InitLink /\ [][NextLink]_vars

-----------------------------------------------------------------------------
(* db/migrations.rs: schema versions *)

SCHEMA_VERSION_KEY == "schema_version"

LATEST_SCHEMA_VERSION == 1

\* char::to_digit(10)
DigitValue(c) ==
    CASE c = "0" -> 0 [] c = "1" -> 1 [] c = "2" -> 2 [] c = "3" -> 3 [] c = "4" -> 4
      [] c = "5" -> 5 [] c = "6" -> 6 [] c = "7" -> 7 [] c = "8" -> 8 [] c = "9" -> 9
      [] OTHER -> -1

RECURSIVE ParseDigits(_, _)
\* the digit loop of from_str_radix: any other character is an error
ParseDigits(text, acc) ==
    IF text = <<>> THEN Some(acc)
    ELSE IF DigitValue(Head(text)) < 0 THEN None
    ELSE ParseDigits(Tail(text), acc * 10 + DigitValue(Head(text)))

\* str::parse::<u32>: an optional leading "+", then at least one digit
ParseU32(text) ==
    LET digits == IF text # <<>> /\ Head(text) = "+" THEN Tail(text) ELSE text
    IN  IF digits = <<>> THEN None ELSE ParseDigits(digits, 0)

\* u32::to_string
U32ToString(n) == IF n = 0 THEN <<"0">> ELSE IF n = 1 THEN <<"1">> ELSE <<"2">>

\* ensure_sync_state_table: CREATE TABLE IF NOT EXISTS sync_state
ensure_sync_state_table(tbls) == tbls \cup {"sync_state"}

\* current_schema_version: 0 without a row, an error for a value that is no u32
current_schema_version(table) ==
    LET raw == get_sync_state(table, SCHEMA_VERSION_KEY)
    IN  IF raw = None THEN [ok |-> TRUE, version |-> 0]
        ELSE IF ParseU32(Unwrap(raw)) = None THEN [ok |-> FALSE, version |-> 0]
        ELSE [ok |-> TRUE, version |-> Unwrap(ParseU32(Unwrap(raw)))]

\* set_schema_version: INSERT ... ON CONFLICT(key) DO UPDATE
set_schema_version(table, version) ==
    set_sync_state(table, SCHEMA_VERSION_KEY, U32ToString(version))

\* A baseline migration that creates the tables and records no version
CreateSchemaOnly(tbls, table, writeOk) ==
    [ok |-> writeOk, tables |-> tbls \cup SchemaTables, table |-> table]

\* apply_v1: create_schema (every statement IF NOT EXISTS), then the version
\* row; the two are not in one transaction, so a failed write leaves the tables
apply_v1(tbls, table, writeOk) ==
    [ok |-> writeOk, tables |-> tbls \cup SchemaTables,
     table |-> IF writeOk THEN set_schema_version(table, 1) ELSE table]

\* A migrate without the test for a newer database: the baseline is applied to
\* every database that is not at version 1
MigrateAnyVersion(tbls, table, writeOk) ==
    LET cur == current_schema_version(table)
    IN  IF ~cur.ok
        THEN [ok |-> FALSE, tables |-> ensure_sync_state_table(tbls), table |-> table]
        ELSE IF cur.version # 1
        THEN apply_v1(ensure_sync_state_table(tbls), table, writeOk)
        ELSE [ok |-> TRUE, tables |-> ensure_sync_state_table(tbls), table |-> table]

\* migrate
migrate(tbls, table, writeOk) ==
    LET cur == current_schema_version(table)
    IN  IF ~cur.ok
        THEN [ok |-> FALSE, tables |-> ensure_sync_state_table(tbls), table |-> table]
        ELSE IF cur.version > LATEST_SCHEMA_VERSION
        THEN [ok |-> FALSE, tables |-> ensure_sync_state_table(tbls), table |-> table]
        ELSE IF cur.version < 1
        THEN apply_v1(ensure_sync_state_table(tbls), table, writeOk)
        ELSE [ok |-> TRUE, tables |-> ensure_sync_state_table(tbls), table |-> table]

\* What a database file holds
Snapshot ==
    [tables |-> tables, syncState |-> syncState, accounts |-> accounts,
     emails |-> emails, contacts |-> contacts]

\* Database::open: the connection, then initialize -> run_migrations -> migrate
Open(writeOk) ==
    LET m == migrate(tables, syncState, writeOk)
    IN  /\ tables' = m.tables
        /\ syncState' = m.table
        /\ last' = [op |-> "open", ok |-> m.ok, before |-> Snapshot]
        /\ ghost' = [opened |-> ghost.opened \/ m.ok]
        /\ UNCHANGED <<accounts, emails, idxPending, idxCommitted>>
        /\ UNCHANGED <<account, mailbox, horizon, contacts, run, tokenKey, now>>

\* A process works on the Store through the handle a successful open gave it
OpensCleanly == migrate(tables, syncState, TRUE).ok /\ ghost.opened

\* The version values that are found in a database file
VersionTexts ==
    {<<"0">>, <<"1">>, <<"2">>, <<"0", "1">>, <<"+", "1">>, <<"x">>, <<>>}

\* A history id a connector has stored
StoredCursorRow == [key |-> HistoryIdKey, value |-> <<"7">>]

\* The files Database::open may find: none, a database written before versions
\* were recorded, and databases stamped with a version by this or another build
InitMigrate ==
    /\ idxPending = <<>>
    /\ idxCommitted = <<>>
    /\ last = [op |-> "init"]
    /\ account = GraphAccount
    /\ mailbox = <<>>
    /\ horizon = 0
    /\ contacts = {}
    /\ run = IdleRun
    /\ ghost = [opened |-> FALSE]
    /\ tokenKey = KeyUnset
    /\ now = 0
    /\ \/ /\ tables = {}
          /\ syncState = {}
          /\ accounts = {}
          /\ emails = {}
       \/ /\ tables \in {SchemaTables, SchemaTables \cup {"labels"}}
          /\ \E stamp \in {{}} \cup {{[key |-> SCHEMA_VERSION_KEY, value |-> v]} :
                                        v \in VersionTexts},
                cursor \in {{}, {StoredCursorRow}} :
                 syncState = stamp \cup cursor
          /\ accounts \in {{}, {AccountRow(AccPro, Professional)}}
          /\ emails \in {{}} \cup {{RowOfEmail(EmailA1)} : x \in accounts}

NextMigrate ==
    \/ \E writeOk \in BOOLEAN : Open(writeOk)
    \/ OpensCleanly /\ \E id \in AccountIds, kind \in AccountTypes : InsertAccount(id, kind)
    \/ OpensCleanly /\ \E e \in {EmailA1, EmailA2} : InsertEmail(e)

\* Database files of every age opened by this build, and used once open
SpecMigrate == InitMigrate /\ [][NextMigrate]_vars

-----------------------------------------------------------------------------
(* mcp/tools.rs: opening the Index for a tool call *)

\* What the file system and the Index library answer during one tool call:
\* open_db, the first EmailIndex::open, remove_dir_all, the EmailIndex::open
\* inside the rebuild, the EmailIndex::open after it, and the tool's own query
Outcome(db, open, remove, init, reopen, query) ==
    [db |-> db, open |-> open, remove |-> remove, init |-> init,
     reopen |-> reopen, query |-> query]

AllFine == Outcome(TRUE, TRUE, TRUE, TRUE, TRUE, TRUE)

Outcomes ==
    {AllFine,
     Outcome(FALSE, TRUE, TRUE, TRUE, TRUE, TRUE),
     Outcome(TRUE, FALSE, TRUE, TRUE, TRUE, TRUE),
     Outcome(TRUE, FALSE, FALSE, TRUE, TRUE, TRUE),
     Outcome(TRUE, FALSE, TRUE, FALSE, TRUE, TRUE),
     Outcome(TRUE, FALSE, TRUE, TRUE, FALSE, TRUE),
     Outcome(TRUE, TRUE, TRUE, TRUE, TRUE, FALSE)}

\* No recovery was needed: the first open succeeded
Opened(docs) ==
    [ok |-> TRUE, docs |-> docs, failed |-> FALSE, removed |-> FALSE,
     reindexed |-> FALSE, rebuilt |-> FALSE, reopens |-> 0]

\* index.reindex(db) on the Index of the new directory: an error leaves it
\* without a committed document
Reindexed(r) ==
    [ok |-> r.ok, docs |-> IF r.ok THEN r.docs ELSE <<>>,
     removed |-> TRUE, reindexed |-> TRUE]

\* A rebuild that recreates the directory and indexes nothing
RebuildEmpty(docs, rows, accts, env) ==
    IF ~env.remove
    THEN [ok |-> FALSE, docs |-> docs, removed |-> FALSE, reindexed |-> FALSE]
    ELSE [ok |-> env.init, docs |-> <<>>, removed |-> TRUE, reindexed |-> FALSE]

\* rebuild_index_from_db: remove_dir_all, create_dir_all, EmailIndex::open of
\* the empty directory, reindex; each `?` returns at the first failure
rebuild_index_from_db(docs, rows, accts, env) ==
    IF ~env.remove
    THEN [ok |-> FALSE, docs |-> docs, removed |-> FALSE, reindexed |-> FALSE]
    ELSE IF ~env.init
    THEN [ok |-> FALSE, docs |-> <<>>, removed |-> TRUE, reindexed |-> FALSE]
    ELSE Reindexed(IndexRows(<<>>, rows, accts, 0))

\* The Err arm of open_index_with_recovery after the rebuild b: `?` on a
\* failed rebuild, else one more EmailIndex::open
Recovered(b, env) ==
    [ok |-> b.ok /\ env.reopen, docs |-> b.docs, failed |-> TRUE,
     removed |-> b.removed, reindexed |-> b.reindexed,
     rebuilt |-> b.ok, reopens |-> IF b.ok THEN 1 ELSE 0]

\* open_index_with_recovery
open_index_with_recovery(docs, rows, accts, env) ==
    IF env.open THEN Opened(docs)
    ELSE Recovered(rebuild_index_from_db(docs, rows, accts, env), env)

-----------------------------------------------------------------------------
(* mcp/server.rs, mcp/tools.rs: the tool server *)

JSONRPC_VERSION == "2.0"

ParseError == -32700

InvalidRequest == -32600

MethodNotFound == -32601

InvalidParams == -32602

ToolExecutionFailed == -32000

\* A "limit" argument: absent, an unsigned integer, or any other JSON value
NoLimit == [kind |-> "absent", value |-> 0]

LimitU64(n) == [kind |-> "u64", value |-> n]

LimitOther == [kind |-> "other", value |-> 0]

\* params.arguments of a tools/call
Arguments(query, conversation_id, since, scope, limit) ==
    [query |-> query, conversation_id |-> conversation_id, since |-> since,
     scope |-> scope, limit |-> limit]

\* json!({}): the arguments when the request has none
EmptyArguments == Arguments(None, None, None, None, NoLimit)

\* params of a request: Value::Null by default, else an object
NullParams == [object |-> FALSE, name |-> None, arguments |-> None]

ToolParams(name, arguments) ==
    [object |-> TRUE, name |-> name, arguments |-> arguments]

\* One line of standard input: blank, text that is no JSON, or a JSON object
\* whose members are absent ("absent") or have the given value
BlankLine ==
    [kind |-> "blank", jsonrpc |-> "absent", id |-> "absent", method |-> "absent",
     params |-> NullParams]

GarbageLine ==
    [kind |-> "garbage", jsonrpc |-> "absent", id |-> "absent", method |-> "absent",
     params |-> NullParams]

ObjectLine(jsonrpc, id, method, params) ==
    [kind |-> "object", jsonrpc |-> jsonrpc, id |-> id, method |-> method,
     params |-> params]

\* serde_json::from_str::<JsonRpcRequest>: jsonrpc and method are required
\* strings, id is an Option (null reads as None), params defaults to Null
ParseRequest(line) ==
    IF line.kind # "object" \/ line.jsonrpc \in {"absent", "number"}
       \/ line.method = "absent"
    THEN None
    ELSE Some([jsonrpc |-> line.jsonrpc,
               id |-> IF line.id \in {"absent", "null"} THEN None ELSE Some(line.id),
               method |-> line.method, params |-> line.params])

\* jsonrpc_result / jsonrpc_error: "id": id.unwrap_or(Value::Null)
jsonrpc_result(id) ==
    [id |-> IF IsSome(id) THEN Unwrap(id) ELSE "null", error |-> FALSE, code |-> 0]

jsonrpc_error(id, code) ==
    [id |-> IF IsSome(id) THEN Unwrap(id) ELSE "null", error |-> TRUE, code |-> code]

\* optional_string: as_str, trim, filter(!is_empty)
optional_string(o) == TrimmedNonEmpty(o)

\* optional_usize: Err for a value that is no u64 and for 0
optional_usize(limit) ==
    IF limit.kind = "absent" THEN [ok |-> TRUE, value |-> None]
    ELSE IF limit.kind # "u64" \/ limit.value = 0 THEN [ok |-> FALSE, value |-> None]
    ELSE [ok |-> TRUE, value |-> Some(limit.value)]

\* optional_date: NaiveDate::parse_from_str(value, "%Y-%m-%d") of a value
\* that is given
optional_date(o) ==
    IF o = None THEN [ok |-> TRUE, value |-> None]
    ELSE IF Unwrap(o).fmt = "date" THEN [ok |-> TRUE, value |-> Some(Unwrap(o).day)]
    ELSE [ok |-> FALSE, value |-> None]

\* Scope::from_str, after optional_string
optional_scope(o) ==
    IF optional_string(o) = None THEN [ok |-> TRUE, value |-> "all"]
    ELSE LET v == AsciiLower(Trim(Unwrap(o)))
         IN  IF v \in {Professional, <<"p", "r", "o">>}
             THEN [ok |-> TRUE, value |-> "professional"]
             ELSE IF v = Personal THEN [ok |-> TRUE, value |-> "personal"]
             ELSE IF v = <<"a", "l", "l">> THEN [ok |-> TRUE, value |-> "all"]
             ELSE [ok |-> FALSE, value |-> "all"]

\* What call_tool returns: Ok, or the place of the Err (the tool name, an
\* argument, or the tool's work), and the Index as the call leaves it
ToolResult(ok, stage, index) == [ok |-> ok, stage |-> stage, index |-> index]

\* A tool that opens the Store only
StoreOnlyTool(docs, env) ==
    IF env.db /\ env.query THEN ToolResult(TRUE, "none", Opened(docs))
    ELSE ToolResult(FALSE, "execution", Opened(docs))

\* The tool's work on the Index i that open_index_with_recovery returned
WithIndex(i, env) ==
    IF i.ok /\ env.query THEN ToolResult(TRUE, "none", i)
    ELSE ToolResult(FALSE, "execution", i)

\* A tool that opens the Store and the Index
IndexTool(docs, rows, accts, env) ==
    IF ~env.db THEN ToolResult(FALSE, "execution", Opened(docs))
    ELSE WithIndex(open_index_with_recovery(docs, rows, accts, env), env)

ess_search(a, docs, rows, accts, env) ==
    IF optional_string(a.query) = None \/ ~optional_date(a.since).ok
       \/ ~optional_scope(a.scope).ok \/ ~optional_usize(a.limit).ok
    THEN ToolResult(FALSE, "argument", Opened(docs))
    ELSE IndexTool(docs, rows, accts, env)

ess_thread(a, docs, env) ==
    IF optional_string(a.conversation_id) = None
    THEN ToolResult(FALSE, "argument", Opened(docs))
    ELSE StoreOnlyTool(docs, env)

ess_contacts(a, docs, env) ==
    IF optional_string(a.query) = None
    THEN ToolResult(FALSE, "argument", Opened(docs))
    ELSE StoreOnlyTool(docs, env)

ess_recent(a, docs, env) ==
    IF ~optional_scope(a.scope).ok \/ ~optional_usize(a.limit).ok
    THEN ToolResult(FALSE, "argument", Opened(docs))
    ELSE StoreOnlyTool(docs, env)

ess_stats(docs, rows, accts, env) == IndexTool(docs, rows, accts, env)

\* call_tool
call_tool(name, a, docs, rows, accts, env) ==
    CASE name = "ess_search" -> ess_search(a, docs, rows, accts, env)
      [] name = "ess_thread" -> ess_thread(a, docs, env)
      [] name = "ess_contacts" -> ess_contacts(a, docs, env)
      [] name = "ess_recent" -> ess_recent(a, docs, env)
      [] name = "ess_stats" -> ess_stats(docs, rows, accts, env)
      [] OTHER -> ToolResult(FALSE, "tool", Opened(docs))

\* What handle_request_line returns, with what the tool call did
Handled(response, tool) == [response |-> response, tool |-> tool]

NoTool(docs) == ToolResult(TRUE, "none", Opened(docs))

\* The response to a request with a known jsonrpc version, after its tool, if
\* any, has run; a response with a null id to a request without id is dropped
Respond(request, tool) ==
    IF request.id = None THEN Handled(None, tool)
    ELSE IF request.method \in {"initialize", "tools/list"}
    THEN Handled(Some(jsonrpc_result(request.id)), tool)
    ELSE IF request.method = "tools/call"
    THEN IF tool.ok THEN Handled(Some(jsonrpc_result(request.id)), tool)
         ELSE Handled(Some(jsonrpc_error(request.id, ToolExecutionFailed)), tool)
    ELSE Handled(Some(jsonrpc_error(request.id, MethodNotFound)), tool)

\* handle_request_line after serde_json::from_str returned Ok(request)
Dispatch(request, docs, rows, accts, env) ==
    IF request.jsonrpc # JSONRPC_VERSION
    THEN Handled(Some(jsonrpc_error(request.id, InvalidRequest)), NoTool(docs))
    ELSE IF request.method = "tools/call" /\ request.params.name = None
    THEN Handled(Some(jsonrpc_error(request.id, InvalidParams)), NoTool(docs))
    ELSE IF request.method = "tools/call"
    THEN Respond(request,
                 call_tool(Unwrap(request.params.name),
                           IF IsSome(request.params.arguments)
                           THEN Unwrap(request.params.arguments)
                           ELSE EmptyArguments,
                           docs, rows, accts, env))
    ELSE Respond(request, NoTool(docs))

\* handle_request_line
handle_request_line(line, docs, rows, accts, env) ==
    IF ParseRequest(line) = None
    THEN Handled(Some(jsonrpc_error(None, ParseError)), NoTool(docs))
    ELSE Dispatch(Unwrap(ParseRequest(line)), docs, rows, accts, env)

\* The argument objects clients send
ArgumentInputs ==
    {EmptyArguments,
     Arguments(Some(<<"k">>), Some(<<"c">>), None, None, NoLimit),
     Arguments(Some(<<" ">>), None, None, None, NoLimit),
     Arguments(Some(<<"k">>), None, Some(DateOnly(1)), Some(<<"P", "r", "o">>), LimitU64(5)),
     Arguments(Some(<<"k">>), None, Some(NotADate), None, NoLimit),
     Arguments(Some(<<"k">>), None, None, Some(<<"w">>), NoLimit),
     Arguments(Some(<<"k">>), None, None, None, LimitU64(0)),
     Arguments(Some(<<"k">>), None, None, None, LimitOther)}

ToolNames == {"ess_search", "ess_thread", "ess_contacts", "ess_recent", "ess_stats", "nope"}

RequestIds == {"absent", "null", "1", "abc"}

\* The lines a client writes
Lines ==
    {BlankLine, GarbageLine}
    \cup {ObjectLine(j, i, m, NullParams) :
            j \in {"1.0", "2.0"}, i \in RequestIds,
            m \in {"absent", "initialize", "tools/list", "tools/call", "ping"}}
    \cup {ObjectLine(j, i, "initialize", NullParams) :
            j \in {"absent", "number"}, i \in {"absent", "1"}}
    \cup {ObjectLine("2.0", i, "tools/call", ToolParams(Some(n), None)) :
            i \in {"absent", "1"}, n \in ToolNames}
    \cup {ObjectLine("2.0", "1", "tools/call", ToolParams(Some(n), Some(a))) :
            n \in ToolNames, a \in ArgumentInputs}
    \cup {ObjectLine("2.0", "absent", "tools/call", ToolParams(Some("ess_search"), Some(a))) :
            a \in ArgumentInputs}
    \cup {ObjectLine("2.0", i, "tools/call", ToolParams(None, Some(EmptyArguments))) :
            i \in RequestIds}

\* Whether handling the line gets as far as a tool
ReachesTool(line) ==
    line.kind = "object" /\ line.jsonrpc = JSONRPC_VERSION
    /\ line.method = "tools/call" /\ line.params.name # None

\* What one iteration of the loop leaves behind: the directory as the tool
\* call left it; the documents staged by the writer of a sync running in
\* another process stay with that writer
Served(line, h) ==
    /\ idxCommitted' = h.tool.index.docs
    /\ idxPending' = IF h.tool.index.failed /\ run.pc = "idle"
                      THEN h.tool.index.docs ELSE idxPending
    /\ last' = [op |-> "line", ok |-> TRUE, line |-> line,
                written |-> h.response, stage |-> h.tool.stage,
                index |-> h.tool.index, indexBefore |-> idxCommitted]
    /\ UNCHANGED <<accounts, emails>>
    /\ UNCHANGED syncVars

\* run_stdio_server, one iteration of the loop over the lines: a blank line is
\* skipped, any other is handled and its response, if any, written and flushed
ServeLine(line, env) ==
    \E rows \in RowsInOrder(emails) :
        IF line.kind = "blank"
        THEN Served(line, Handled(None, NoTool(idxCommitted)))
        ELSE Served(line, handle_request_line(line, idxCommitted, rows, accounts, env))

InitServer ==
    /\ accounts = {AccountRow(AccPro, Professional)}
    /\ emails = {}
    /\ idxPending = <<>>
    /\ idxCommitted = <<>>
    /\ last = [op |-> "open", ok |-> TRUE]
    /\ SyncIdle

NextServer ==
    \/ \E line \in Lines, env \in Outcomes :
          (ReachesTool(line) \/ env = AllFine) /\ ServeLine(line, env)
    \/ \E e \in {EmailA1, EmailB2} : InsertEmail(e)
    \/ \E e \in {EmailA1} : AddEmail(e, Professional)

\* The tool server reading lines while the Store and the Index change
SpecServer == InitServer /\ [][NextServer]_vars

-----------------------------------------------------------------------------
(* connectors/gmail_api.rs: the parser of batch responses on its own *)

\* The batches of distinct ids batch_get_messages sends
SentBatches ==
    {<<a>> : a \in MessageIds}
        \cup {<<p[1], p[2]>> : p \in {q \in MessageIds \X MessageIds : q[1] # q[2]}}

\* What a sub-response can look like
PartShapes ==
    {[status_line |-> Some(Status200), body |-> "message"],
     [status_line |-> Some(Status200), body |-> "object"],
     [status_line |-> Some(Status200), body |-> "none"],
     [status_line |-> Some(Status429), body |-> "object"],
     [status_line |-> Some(Status429), body |-> "none"],
     [status_line |-> Some(Status404), body |-> "object"],
     [status_line |-> Some(Status404), body |-> "none"],
     [status_line |-> None, body |-> "none"]}

PartsFor(id) == {Part(id, s.status_line, s.body) : s \in PartShapes}

\* The responses to a batch: every sub-request is answered at most once, in
\* any order (sub-responses are correlated by Content-ID, not by position),
\* and the response may end early
ResponsesTo(sent_ids) ==
    LET ids == {sent_ids[i] : i \in DOMAIN sent_ids}
    IN  {<<>>}
          \cup UNION {{<<x>> : x \in PartsFor(a)} : a \in ids}
          \cup UNION {{<<x, y>> : x \in PartsFor(p[1]), y \in PartsFor(p[2])} :
                         p \in {q \in ids \X ids : q[1] # q[2]}}

\* parse_batch_response is called for a batch and a response
ParseBatchResponse(sent_ids, parts, boundary) ==
    /\ last' = [op |-> "parse_batch", sent_ids |-> sent_ids, parts |-> parts,
                boundary |-> boundary,
                result |-> parse_batch_response(parts, boundary, sent_ids)]
    /\ UNCHANGED envVars
    /\ UNCHANGED <<accounts, emails, idxPending, idxCommitted, account, mailbox,
                   horizon, syncState, contacts, run, ghost>>

InitBatch ==
    /\ accounts = {}
    /\ emails = {}
    /\ idxPending = <<>>
    /\ idxCommitted = <<>>
    /\ last = [op |-> "init"]
    /\ account = GmailAccount
    /\ mailbox = <<>>
    /\ horizon = 0
    /\ syncState = {}
    /\ contacts = {}
    /\ run = IdleRun
    /\ ghost = NoHistory
    /\ tokenKey = KeyUnset
    /\ now = 0
    /\ tables = SchemaTables

NextBatch ==
    \E sent_ids \in SentBatches, boundary \in BOOLEAN :
        \E parts \in ResponsesTo(sent_ids) :
            ParseBatchResponse(sent_ids, parts, boundary)

SpecBatch == InitBatch /\ [][NextBatch]_vars

-----------------------------------------------------------------------------
(* connectors/gmail_api.rs: the bootstrap against every batch response *)

\* The sub-responses of a batch: as FetchOutcomes, and a 404 without a JSON
\* object after its status line
SubResponses == [MessageIds -> {"ok", "throttled", "failed", "bare"}]

\* The Gmail account is synced for the first time; the provider has delivered
\* two messages
InitBootstrap ==
    /\ accounts = {}
    /\ emails = {}
    /\ idxPending = <<>>
    /\ idxCommitted = <<>>
    /\ last = [op |-> "init"]
    /\ account = GmailAccount
    /\ mailbox = <<Event(IdA, FALSE), Event(IdB, FALSE)>>
    /\ horizon = 0
    /\ syncState = {}
    /\ contacts = {}
    /\ run = IdleRun
    /\ ghost = NoHistory
    /\ tokenKey = KeyUnset
    /\ now = 0
    /\ tables = SchemaTables

NextBootstrap ==
    \/ \E outcome \in {"ok", "token_error"} : GmailSyncStart(outcome)
    \/ \E outcome \in {"ok", "error"} : GmailProfile(outcome)
    \/ \E outcome \in {"ok", "error"} : GmailList(outcome)
    \/ \E outcome \in {"ok", "commit_error", "request_error", "token_error"},
          fetch \in SubResponses, order \in {"sent", "reversed"} :
           GmailBatch(outcome, fetch, order)
    \/ \E response \in {ProviderAnswer, SendFailed}, fetch \in GetOutcomes :
           GmailHistoryPage(response, fetch)
    \/ \E id \in MessageIds : ProviderRemove(id)
    \/ ProviderExpire

SpecBootstrap == InitBootstrap /\ [][NextBootstrap]_vars

-----------------------------------------------------------------------------
(* connectors: syncs in which single messages and Index commits fail *)

\* The Graph account is synced; nothing is ingested and no delta link is stored
InitApply ==
    /\ accounts = {}
    /\ emails = {}
    /\ idxPending = <<>>
    /\ idxCommitted = <<>>
    /\ last = [op |-> "init"]
    /\ account = GraphAccount
    /\ mailbox = <<>>
    /\ horizon = 0
    /\ syncState = {}
    /\ contacts = {}
    /\ run = IdleRun
    /\ ghost = NoHistory
    /\ tokenKey = KeyUnset
    /\ now = 0
    /\ tables = SchemaTables

NextApply ==
    \/ \E outcome \in {"ok", "discover_error"} : GraphSyncStart(outcome)
    \/ \E outcome \in {"ok", "error", "commit_error"} : GraphEnumeratePage(outcome)
    \/ \E outcome \in {"ok", "error", "commit_error"} : GraphBaselinePage(outcome)
    \/ \E outcome \in {"ok", "error", "stale", "commit_error"} : GraphDeltaPage(outcome)
    \/ \E id \in MessageIds : ProviderDeliver(id)
    \/ \E id \in MessageIds : ProviderDeliverMalformed(id)
    \/ \E id \in MessageIds : ProviderRemove(id)
    \/ ProviderExpire

SpecApply == InitApply /\ [][NextApply]_vars

-----------------------------------------------------------------------------
(* main.rs, mcp/tools.rs: a sync and the tool server in two processes *)

\* handle_sync opens the EmailIndex, and with it the Index writer, before the
\* sync and drops it after: the writer is held while a sync is in flight
WriterHeld == run.pc # "idle"

\* The tools/call lines of a client, one per tool of the claim
ToolLines ==
    {ObjectLine("2.0", "1", "tools/call", ToolParams(Some(n), Some(a))) :
        n \in {"ess_search", "ess_recent", "ess_stats"},
        a \in {Arguments(Some(<<"k">>), None, None, None, NoLimit)}}

\* One line served by the tool server while the sync process may hold the
\* writer: index.writer(50_000_000)? in EmailIndex::open fails on the
\* writer lock that another process holds
ServeBeside(line, env) ==
    /\ WriterHeld => ~env.open
    /\ ServeLine(line, env)

InitShared == InitApply

NextShared ==
    \/ GraphSyncStart("ok")
    \/ GraphEnumeratePage("ok")
    \/ GraphBaselinePage("ok")
    \/ GraphDeltaPage("ok")
    \/ \E id \in MessageIds : ProviderDeliver(id)
    \/ \E line \in ToolLines, env \in Outcomes : ServeBeside(line, env)

\* A Graph sync in one process, tool calls served by another
SpecShared == InitShared /\ [][NextShared]_vars

-----------------------------------------------------------------------------
(* connectors/gmail_api.rs: incremental syncs whose requests fail *)

\* A Gmail message id, a hexadecimal text, that holds the digits 404
Id404 == <<"4", "0", "4">>

HexIds == {IdA, Id404}

\* The body of an error response that quotes a status
UpstreamBody == <<"upstream answered ", "4", "0", "4">>

\* What list_history and get_message come to: the provider's answer, no
\* response, 403, and 500 with a body
HistoryResults == {ProviderAnswer, SendFailed, ErrorStatus(ServerError, UpstreamBody)}

GetResults ==
    {ProviderAnswer, SendFailed, ErrorStatus(Forbidden, <<>>),
     ErrorStatus(ServerError, UpstreamBody)}

InitHistory ==
    /\ accounts = {}
    /\ emails = {}
    /\ idxPending = <<>>
    /\ idxCommitted = <<>>
    /\ last = [op |-> "init"]
    /\ account = GmailAccount
    /\ mailbox = <<>>
    /\ horizon = 0
    /\ syncState = {}
    /\ contacts = {}
    /\ run = IdleRun
    /\ ghost = NoHistory
    /\ tokenKey = KeyUnset
    /\ now = 0
    /\ tables = SchemaTables

NextHistory ==
    \/ GmailSyncStart("ok")
    \/ GmailProfile("ok")
    \/ GmailList("ok")
    \/ \E fetch \in [HexIds -> {"ok"}] : GmailBatch("ok", fetch, "sent")
    \/ \E response \in HistoryResults, fetch \in [HexIds -> GetResults] :
           GmailHistoryPage(response, fetch)
    \/ \E id \in HexIds : ProviderDeliver(id)
    \/ \E id \in HexIds : ProviderRemove(id)
    \/ ProviderExpire

\* Gmail syncs of a mailbox whose requests fail in every way
SpecHistory == InitHistory /\ [][NextHistory]_vars

-----------------------------------------------------------------------------
(* Properties *)

\* The ids of the rows of the Store
StoredIds == {r.id : r \in emails}

\* The provider removed the message after change-feed position pos
RemovedAfter(id, pos) ==
    \E i \in (pos + 1)..Len(mailbox) : mailbox[i].id = id /\ mailbox[i].removed

\* C1: whenever a cursor is persisted, every message that was in the
\* partition at the cursor's position, and that the provider has not removed
\* since, has a row in the Store: no message is left behind the cursor.
C1_NoMessageBehindCursor ==
    IsSome(StoredCursor) =>
        \A id \in PresentAt(mailbox, Unwrap(StoredCursor)) :
            id \in StoredIds \/ RemovedAfter(id, Unwrap(StoredCursor))

\* An incremental sync ended, failed or cancelled, without completing its walk
IncrementalCutShort ==
    /\ last.op = "sync"
    /\ last.mode = "incremental"
    /\ ~last.stored
    /\ ~last.stale

C3_SecondSyncIdle ==
    ( /\ last.op = "sync"
      /\ last.nth >= 2
      /\ last.ok
      /\ last.prev \in {"ok_persisted", "ok_unpersisted"}
      /\ last.quiet )
    => /\ last.unchanged
       /\ last.report.emails_added = 0
       /\ last.report.emails_updated = 0

\* C4: a sync whose change-feed request was rejected as stale, and in which
\* nothing else failed, returns without an error line, having bootstrapped
\* the partition and persisted a cursor the provider accepts.
C4_StaleCursorBootstraps ==
    ( /\ last.op = "sync"
      /\ ~last.cancelled
      /\ last.stale
      /\ ~last.failed )
    => /\ last.ok
       /\ last.report.errors = <<>>
       /\ last.mode = "bootstrap"
       /\ last.stored
       /\ IsSome(StoredCursor)
       /\ Unwrap(StoredCursor) >= last.staleHorizon


\* C5: the Store holds at most one row per email id, and immediately after a
\* successful upsert_email(e) a get_email(e.id) returns a record equal to e in
\* every field (nothing of an earlier row with that id survives).
C5_UpsertThenGet ==
    /\ \A r1, r2 \in emails : r1.id = r2.id => r1 = r2
    /\ (last.op = "insert_email" /\ last.ok) =>
           get_email(emails, last.email.id) = Some(last.email)

\* C5 witness: an upsert replaced an existing row that differed from the new one
C5_Witness ==
    /\ last.op = "insert_email"
    /\ last.ok
    /\ last.existed
    /\ last.before # Some(last.email)

\* C6: after any sequence of add_email, delete_email and reindex the Index
\* (reader and writer) holds at most one document per emails.id; right after a
\* successful add_email the id has exactly one document, also when the same
\* email was already indexed; right after delete_email(id) the id has none.
C6_OneDocPerId ==
    /\ \A id \in EmailIds :
           /\ Cardinality(DocsWithId(idxCommitted, id)) <= 1
           /\ Cardinality(DocsWithId(idxPending, id)) <= 1
    /\ (last.op = "add_email" /\ last.ok) =>
           /\ Cardinality(DocsWithId(idxCommitted, last.email.id)) = 1
           /\ \E i \in DocsWithId(idxCommitted, last.email.id) :
                  idxCommitted[i] = DocumentOf(last.email, last.kind)
    /\ last.op = "delete_email" => DocsWithId(idxCommitted, last.id) = {}

\* C6 witness: the same email was added again while its document and another
\* email's document were in the Index
C6_Witness ==
    /\ last.op = "add_email"
    /\ last.ok
    /\ last.had = 1
    /\ last.same
    /\ Len(idxCommitted) = 2

\* C7: after reindex the Index holds exactly one document for every row of the
\* Store and none for an id the Store lacks, and the count reindex returns is
\* the number of rows.
C7_ReindexExact ==
    last.op = "reindex" =>
        /\ \A r \in emails : Cardinality(DocsWithId(idxCommitted, r.id)) = 1
        /\ \A i \in DOMAIN idxCommitted :
               \E r \in emails : r.id = idxCommitted[i].email_db_id
        /\ last.ok => last.count = Cardinality(emails)

\* C8: for every Filter (any limit, 0 included, and any offset) and every
\* Store and Index state, search_emails returns at most limit results.
C8_AtMostLimit ==
    last.op = "search_emails" => Len(last.results) <= last.filters.limit

\* a is b with some elements left out, the rest in b's order
RECURSIVE IsSubsequence(_, _)
IsSubsequence(a, b) ==
    IF a = <<>> THEN TRUE
    ELSE IF b = <<>> THEN FALSE
    ELSE IF Head(a) = Head(b) THEN IsSubsequence(Tail(a), Tail(b))
    ELSE IsSubsequence(a, Tail(b))

\* The results of the last search as (email_db_id, score) pairs
ResultKeys ==
    [i \in DOMAIN last.results |->
        [email_db_id |-> last.results[i].email.id, score |-> last.results[i].score]]

\* The doc address of the Index document a hit was read from
HitAddress(hit) == CHOOSE i \in DOMAIN idxCommitted :
                       idxCommitted[i].email_db_id = hit.email_db_id

\* What C9 says apart from the order of ties: non-increasing scores, no
\* email_db_id twice, and the coordinator's result a subsequence of the hits
HitsRankedAndUnique ==
    /\ \A i, j \in DOMAIN last.hits :
           i < j => last.hits[i].score >= last.hits[j].score
    /\ \A i, j \in DOMAIN last.hits :
           i # j => last.hits[i].email_db_id # last.hits[j].email_db_id
    /\ IsSubsequence(ResultKeys, last.hits)

HitSurvives(hit) ==
    LET rows == {r \in emails : r.id = hit.email_db_id}
        from == Trim(IF last.filters.from = <<>> THEN <<>> ELSE last.filters.from[1])
        to == Trim(IF last.filters.to = <<>> THEN <<>> ELSE last.filters.to[1])
        owner == Trim(IF last.filters.account = <<>> THEN <<>>
                      ELSE last.filters.account[1])
    IN  \E r \in rows :
            LET e == EmailFromRow(r)
            IN  /\ from # <<>> =>
                       /\ e.from_address # <<>>
                       /\ AsciiLower(e.from_address[1]) = AsciiLower(from)
                /\ owner # <<>> => e.account_id = <<owner>>
                /\ to # <<>> =>
                       \E a \in {e.to_addresses[i] : i \in DOMAIN e.to_addresses}
                                \cup {e.cc_addresses[i] : i \in DOMAIN e.cc_addresses}
                                \cup {e.bcc_addresses[i] : i \in DOMAIN e.bcc_addresses} :
                           AsciiLower(a) = AsciiLower(to)
                /\ last.filters.unread_only => e.is_read # <<TRUE>>

\* C10: every result of search_emails is the Store's row for its id and
\* satisfies every residual predicate set in the Filter (from ignoring case,
\* account exactly, to among to/cc/bcc ignoring case, unread when unread_only);
\* a hit whose row is missing or fails a predicate is dropped and the search
\* still succeeds: the results are the surviving hits after the offset.
C10_ResultsSatisfyResiduals ==
    last.op = "search_emails" =>
        /\ last.ok
        /\ \A i \in DOMAIN last.results :
               /\ get_email(emails, last.results[i].email.id) = Some(last.results[i].email)
               /\ HitSurvives(ResultKeys[i])
        /\ Len(last.results) =
               Max(0, Cardinality({i \in DOMAIN last.hits : HitSurvives(last.hits[i])})
                      - last.filters.offset)

\* C10 witness: a search with a to filter, one of whose hits had no Store row
\* and was dropped while another hit passed the filter
C10_Witness ==
    /\ last.op = "search_emails"
    /\ last.filters.to # <<>>
    /\ Len(last.results) = 1
    /\ \E i \in DOMAIN last.hits :
           {r \in emails : r.id = last.hits[i].email_db_id} = {}


\* The documents of the reader that pass the coarse predicates other than the
\* date bounds
CoarseWithoutDates(doc, filters) ==
    FiltersMatch(doc, [IndexFiltersOf(filters) EXCEPT !.since = None, !.until = None])

\* C11: a match-all search with since = s and until = u, asked for at least
\* as many hits as the Index holds, gets from the Index exactly the documents
\* whose received_at lies in [s 00:00:00, u 23:59:59.999999] UTC (and that
\* pass the scope and folder terms): the path search_emails ->
\* EmailIndex::search bounds the dates as to_tantivy_query does.
C11_WholeDayInclusive ==
    ( /\ last.op = "search_emails"
      /\ IsSome(last.filters.since) \/ IsSome(last.filters.until)
      /\ Trim(QueryText(last.query, last.filters)) = <<>>
      /\ RequestedLimit(last.filters) >= Len(idxCommitted) )
    => {last.hits[i].email_db_id : i \in DOMAIN last.hits}
       = {idxCommitted[i].email_db_id :
            i \in {j \in DOMAIN idxCommitted :
                     /\ CoarseWithoutDates(idxCommitted[j], last.filters)
                     /\ PlannerDateRange(idxCommitted[j], last.filters)}}
\* The kind the Store currently records for the account that owns an email
CurrentKinds(email) ==
    {a.account_type : a \in {x \in accounts : Some(x.account_id) = email.account_id}}

\* C12: after account upserts, ingests and reindexes, a search with scope
\* professional (personal) returns only emails whose owning account has that
\* kind in the Store now, and scope all restricts by no kind: every indexed
\* email with a Store row is returned
C12_ScopeByCurrentKind ==
    last.op = "search_emails" =>
        /\ last.filters.scope # "all" =>
              \A i \in DOMAIN last.results :
                  CurrentKinds(last.results[i].email)
                      \subseteq {ScopeAccountType(last.filters.scope)[1]}
        /\ ( /\ last.filters = [DefaultFilters EXCEPT !.scope = "all"]
             /\ last.query = <<>> ) =>
              {last.results[i].email.id : i \in DOMAIN last.results}
                  = {idxCommitted[i].email_db_id : i \in DOMAIN idxCommitted}
                    \cap StoredIds

\* The wait the retry rule prescribes before retry i, given the response that
\* caused it
PrescribedWait(response, i) ==
    IF response.status = 429 /\ response.retry_after.kind = "seconds"
    THEN response.retry_after.seconds
    ELSE Min(2 ^ (i - 1), 32)

\* C13: a page-fetch helper sends a request at most six times; the wait before
\* each retry is the whole-second Retry-After of the 429 or else the backoff
\* 1, 2, 4, ... capped at 32 seconds; when the sixth request is answered 429
\* too, the helper returns an error without another sleep or request
C13_SixRequestsThenError ==
    last.op = "fetch" =>
        /\ Len(last.responses) <= 6
        /\ \A i \in DOMAIN last.sleeps :
              last.sleeps[i] = PrescribedWait(last.responses[i], i)
        /\ ( /\ Len(last.responses) = 6
             /\ last.responses[6].status = 429 ) =>
              /\ last.result = "err"
              /\ Len(last.sleeps) = 5

\* C14: while ESS_TOKEN_CACHE_KEY is not configured no token is persisted:
\* store_token leaves SyncState as it was, cached_token returns none and
\* leaves no entry under the token-cache key, and get_access_token asks the
\* token endpoint for a fresh token and stores nothing
C14_NoKeyNoTokenAtRest ==
    tokenKey = KeyUnset =>
        /\ last.op = "store_token" => last.ok /\ TokenEntry = last.before
        /\ last.op = "cached_token" =>
              last.ok /\ last.token = None /\ TokenEntry = None
        /\ last.op = "get_access_token" =>
              /\ last.fetched
              /\ TokenEntry = None
              /\ last.ok => IsSome(last.token)

\* A token left in the cache is removed by get_access_token without a key,
\* and the fresh token is returned
C14_Witness ==
    /\ tokenKey = KeyUnset
    /\ last.op = "get_access_token"
    /\ last.ok
    /\ IsSome(last.before)
    /\ TokenEntry = None

HexDigits == {"0", "1", "2", "3", "4", "5", "6", "7", "8", "9",
              "a", "b", "c", "d", "e", "f"}

\* The characters an envelope's text is made of
EnvelopeAlphabet ==
    LET frame == EnvelopeText([nonce_hex |-> <<>>, ciphertext_hex |-> <<>>])
    IN  HexDigits \cup {frame[i] : i \in DOMAIN frame}

\* cached_token right after store_token(t) gives t back, whatever nonce a
\* migration would draw
ReadsBack(t) ==
    \A seal \in SealOutcomes :
        cached_token(syncState, account, tokenKey, now, seal.nonce_hex,
                     seal.ciphertext_hex).token = Some(t)

ReadLegacy ==
    /\ last.op \in {"cached_token", "get_access_token"}
    /\ tokenKey \in {KeyOne, KeyTwo}
    /\ IsSome(last.before)
    /\ Unwrap(last.before).form = "plaintext"

\* The cache holds the envelope of this token under the configured key
HoldsEnvelopeOf(token) ==
    /\ IsSome(TokenEntry)
    /\ decrypt_cached_access_token(Unwrap(TokenEntry), tokenKey) = Some(token)

\* What the last read handed back is this token
Handed(token) ==
    /\ last.ok
    /\ ~last.fetched
    /\ last.token = IF last.op = "cached_token" THEN Some(token)
                    ELSE Some(token.access_token)

\* No plaintext is written, and none survives a read under a valid or absent
\* key
PlaintextOnlyUntouched ==
    (IsSome(TokenEntry) /\ Unwrap(TokenEntry).form = "plaintext") =>
        /\ last.op = "open" \/ TokenEntry = last.before
        /\ last.op \in {"cached_token", "get_access_token"} => tokenKey = KeyInvalid

\* C16 (as stated): with a key configured a legacy plaintext value is accepted
\* by the read, returned, and replaced by the envelope of the same token; a
\* token-cache value is an envelope or a legacy plaintext no read has yet
\* touched; nothing writes a plaintext token
C16_LegacyAcceptedAndSealed ==
    /\ ReadLegacy =>
          /\ Handed(Unwrap(last.before).token)
          /\ HoldsEnvelopeOf(Unwrap(last.before).token)
    /\ PlaintextOnlyUntouched

\* C16 (amended): the legacy token is returned and kept as an envelope when
\* it has not expired; an expired one is not returned and is removed, and
\* get_access_token fetches a fresh token
C16_UnexpiredLegacySealed ==
    /\ ReadLegacy =>
          LET legacy == Unwrap(last.before).token
          IN  IF ~is_expired(legacy, now)
              THEN Handed(legacy) /\ HoldsEnvelopeOf(legacy)
              ELSE /\ last.op = "cached_token" => last.token = None /\ TokenEntry = None
                   /\ last.op = "get_access_token" => last.fetched
    /\ PlaintextOnlyUntouched

\* A legacy plaintext token was read under a key, returned, and is now sealed
C16_Witness ==
    /\ ReadLegacy
    /\ last.op = "cached_token"
    /\ last.token = Some(Unwrap(last.before).token)
    /\ HoldsEnvelopeOf(Unwrap(last.before).token)

\* The last operation read the cache while it held a token the configured
\* key can read
ReadReadable ==
    /\ last.op \in {"cached_token", "get_access_token"}
    /\ tokenKey \in {KeyOne, KeyTwo}
    /\ IsSome(last.before)
    /\ \/ Unwrap(last.before).form = "plaintext"
       \/ IsSome(decrypt_cached_access_token(Unwrap(last.before), tokenKey))

\* The read found the entry out of date: nothing is returned from the cache,
\* the entry is removed and get_access_token goes to the token endpoint
Discarded ==
    /\ last.op = "cached_token" => last.token = None /\ TokenEntry = None
    /\ last.op = "get_access_token" => last.fetched

\* C17 (as stated): a cached token whose expires_at is less than 60 seconds
\* after now is never returned but discarded and replaced by a fresh one; a
\* token whose expires_at is at least 60 seconds ahead is returned from the
\* cache without a provider request
C17_SixtySecondsAhead ==
    ReadReadable =>
        LET t == Unwrap(last.before).token
        IN  IF t.expires_at < now + 60 THEN Discarded ELSE Handed(t)

\* C17 (amended): the comparison is with now itself: a token whose expires_at
\* is at or before now is discarded, one whose expires_at is after now is
\* returned from the cache; the 60 seconds are taken off when the token is
\* fetched, expires_at = time of the fetch + expires_in - 60
C17_ExpiresAtAfterNow ==
    /\ ReadReadable =>
          LET t == Unwrap(last.before).token
          IN  IF t.expires_at <= now THEN Discarded ELSE Handed(t)
    /\ (last.op = "cached_token" /\ IsSome(last.token)) =>
          Unwrap(last.token).expires_at > now
    /\ ( /\ last.op = "get_access_token" /\ last.ok /\ last.fetched
         /\ tokenKey \in {KeyOne, KeyTwo} ) =>
          /\ IsSome(TokenEntry)
          /\ Unwrap(TokenEntry).token.expires_at \in {now + x - 60 : x \in ExpiresIn}

\* A token with 30 seconds left on its expires_at is served from the cache
C17_Witness ==
    /\ ReadReadable
    /\ last.op = "get_access_token"
    /\ last.ok
    /\ ~last.fetched
    /\ Unwrap(last.before).token.expires_at = now + 30

\* The legacy value the migration rule picks for a folder in a table: the
\* well-known-name key's if the folder is a well-known one and the value is
\* not blank, else the un-suffixed key's if the folder is the inbox
WellKnownLegacy(table, folder) ==
    CASE folder = InboxFolder -> StoredLink(table, "graph_delta_link:account:inbox")
      [] folder = SentFolder -> StoredLink(table, "graph_delta_link:account:sentitems")
      [] OTHER -> None

UnsuffixedLegacy(table, folder) ==
    IF folder = InboxFolder THEN StoredLink(table, "graph_delta_link:account") ELSE None

SourceOfLegacy(table, folder) ==
    IF IsSome(WellKnownLegacy(table, folder))
    THEN IF folder = InboxFolder THEN "graph_delta_link:account:inbox"
         ELSE "graph_delta_link:account:sentitems"
    ELSE "graph_delta_link:account"

FirstLegacy(table, folder) ==
    IF IsSome(WellKnownLegacy(table, folder)) THEN WellKnownLegacy(table, folder)
    ELSE UnsuffixedLegacy(table, folder)

\* C18: when the folder-scoped key is absent load_delta_link returns the
\* first non-empty legacy value, the well-known-name key before the inbox's
\* un-suffixed key; afterwards the folder-scoped key holds that value and the
\* legacy key it came from is absent; once the folder-scoped key holds a
\* value every load returns that value and no legacy key's
C18_LegacyLinkMovedOnce ==
    last.op = "load_delta_link" =>
        LET key == "graph_delta_link:account:" \o last.folder.folder_id
            first == FirstLegacy(last.before, last.folder)
        IN  /\ get_sync_state(last.before, key) = None =>
                  /\ last.value = first
                  /\ IsSome(first) =>
                        /\ get_sync_state(syncState, key) = first
                        /\ get_sync_state(syncState,
                               SourceOfLegacy(last.before, last.folder)) = None
                  /\ first = None => syncState = last.before
            /\ get_sync_state(last.before, key) # None =>
                  /\ last.value = get_sync_state(last.before, key)
                  /\ syncState = last.before

\* The inbox's link came from the un-suffixed key because the well-known-name
\* key held a blank
C18_Witness ==
    /\ last.op = "load_delta_link"
    /\ last.folder = InboxFolder
    /\ get_sync_state(last.before, "graph_delta_link:account:id-inbox") = None
    /\ get_sync_state(last.before, "graph_delta_link:account:inbox") = Some(<<" ">>)
    /\ get_sync_state(last.before, "graph_delta_link:account") = Some(<<" ", "v">>)
    /\ last.value = Some(<<"v">>)
    /\ get_sync_state(syncState, "graph_delta_link:account:id-inbox") = Some(<<"v">>)

\* The ids the readable files of a path encode
EncodedIds(path) == {path[i].payload.id : i \in {j \in DOMAIN path : path[j].readable}}

IdsOfRows(table) == {r.id : r \in table}

\* The documents of an id, in a state of the Index
DocsOf(docs, id) == {docs[i] : i \in DocsWithId(docs, id)}

\* C19: an import counts every file in files_processed; a file whose id is
\* already in the Store changes neither the Store row nor the Index nor a
\* contact count; files that all encode one id, new to the Store, yield
\* emails_imported = 1; and importing the same path a second time yields
\* emails_imported = 0 and leaves Store, Index and contacts as they were
C19_ImportOncePerId ==
    last.op = "import" =>
        /\ last.report.files_processed = Len(last.path)
        /\ \A id \in IdsOfRows(last.emailsBefore) :
              /\ GetEmailRows(emails, id) = GetEmailRows(last.emailsBefore, id)
              /\ DocsOf(idxCommitted, id) = DocsOf(last.indexBefore, id)
        /\ EncodedIds(last.path) \subseteq IdsOfRows(last.emailsBefore) =>
              /\ last.report.emails_imported = 0
              /\ emails = last.emailsBefore
              /\ idxCommitted = last.indexBefore
              /\ contacts = last.contactsBefore
        /\ ( /\ Cardinality(EncodedIds(last.path)) = 1
             /\ \A i \in DOMAIN last.path : last.path[i].readable
             /\ EncodedIds(last.path) \cap IdsOfRows(last.emailsBefore) = {} ) =>
              last.report.emails_imported = 1
        /\ last.repeated =>
              /\ last.report.emails_imported = 0
              /\ emails = last.emailsBefore
              /\ idxCommitted = last.indexBefore
              /\ contacts = last.contactsBefore

\* C20: for every sync that returns a report, emails_added is the number of
\* ids that were absent from the Store right before that sync upserted them,
\* and emails_updated the number of upserts of ids that were there; upserts
\* made before a later page or folder error, and upserts of the
\* delta-baseline walk, are in these counts
C20_ReportCountsUpserts ==
    (last.op = "sync" /\ last.ok) =>
        /\ last.report.emails_added = last.upserts.added
        /\ last.report.emails_updated = last.upserts.updated

\* C21: in every reachable Store state every email row's account_id is either
\* null or the account_id of an existing account row.
C21_EmailsReferenceAccounts ==
    \A r \in emails :
        IsSome(r.account_id) =>
            \E a \in accounts : a.account_id = Unwrap(r.account_id)

\* C21 witness: the Store holds email rows and has just refused to remove the
\* account they reference
C21_Witness ==
    /\ last.op = "remove_account"
    /\ ~last.ok
    /\ \E r \in emails : IsSome(r.account_id)

\* C22: remove_account(id) succeeds; for an account that exists (whether or not
\* it owns emails) it returns 1 and afterwards neither the account row nor any
\* email with account_id = id is in the Store; for an id that names no account
\* it returns 0.
C22_RemoveAccountCascades ==
    last.op = "remove_account" =>
        /\ last.ok
        /\ last.count = (IF last.existed THEN 1 ELSE 0)
        /\ ~\E a \in accounts : a.account_id = last.id
        /\ ~\E r \in emails : r.account_id = Some(last.id)

\* C23: once a Store has been opened, SyncState holds a schema_version entry
\* that reads as a number; over every step the version read from SyncState
\* never decreases; and an open (migrate) of a database that is at version 1
\* succeeds and leaves every table and every row, the version row included, as
\* it was.
C23_VersionPresentAndMonotonic ==
    /\ [](ghost.opened =>
            /\ IsSome(get_sync_state(syncState, SCHEMA_VERSION_KEY))
            /\ current_schema_version(syncState).ok)
    /\ [][current_schema_version(syncState).ok =>
            /\ current_schema_version(syncState').ok
            /\ current_schema_version(syncState').version
                   >= current_schema_version(syncState).version]_vars
    /\ []((/\ last.op = "open"
           /\ IsSome(get_sync_state(last.before.syncState, SCHEMA_VERSION_KEY))
           /\ current_schema_version(last.before.syncState).ok
           /\ current_schema_version(last.before.syncState).version
                  = LATEST_SCHEMA_VERSION) =>
              (last.ok /\ Snapshot = last.before))

\* C23 witness: a database already at the current version, holding rows, has
\* been opened again
C23_Witness ==
    /\ last.op = "open"
    /\ last.ok
    /\ current_schema_version(last.before.syncState).version = LATEST_SCHEMA_VERSION
    /\ last.before.emails # {}
    /\ ghost.opened

\* C24: an open of a database whose recorded schema_version is greater than 1
\* fails and leaves the recorded version, every table and every row unchanged.
C24_NewerDatabaseRefused ==
    (/\ last.op = "open"
     /\ current_schema_version(last.before.syncState).ok
     /\ current_schema_version(last.before.syncState).version
            > LATEST_SCHEMA_VERSION) =>
        (~last.ok /\ Snapshot = last.before)

\* C24 witness: a database stamped with version 2, with a table this build
\* does not know, was refused
C24_Witness ==
    /\ last.op = "open"
    /\ ~last.ok
    /\ get_sync_state(last.before.syncState, SCHEMA_VERSION_KEY) = Some(<<"2">>)
    /\ "labels" \in tables
    /\ emails # {}

\* C25: for every input line at most one response line is written; for a
\* request without an id none is written, whatever its jsonrpc value, method
\* or params; for a well-formed request with an id exactly one response is
\* written and it carries that id.
C25_OneResponsePerRequest ==
    last.op = "line" =>
        /\ Len(last.written) <= 1
        /\ (ParseRequest(last.line) # None /\ last.line.id = "absent") =>
               last.written = None
        /\ (/\ ParseRequest(last.line) # None
            /\ last.line.jsonrpc = JSONRPC_VERSION
            /\ last.line.id \notin {"absent", "null"}) =>
               (IsSome(last.written) /\ Unwrap(last.written).id = last.line.id)

\* The code the failure class of a line prescribes, 0 where the classes of
\* the protocol do not decide
PrescribedCode(line, stage) ==
    IF line.kind = "garbage" THEN ParseError
    ELSE IF ParseRequest(line) = None THEN 0
    ELSE IF line.jsonrpc # JSONRPC_VERSION THEN InvalidRequest
    ELSE IF line.method \notin {"initialize", "tools/list", "tools/call"}
    THEN MethodNotFound
    ELSE IF line.method = "tools/call" /\ (line.params.name = None \/ stage = "argument")
    THEN InvalidParams
    ELSE IF stage = "execution" THEN ToolExecutionFailed
    ELSE 0

\* C26: every error response carries the code of the request's failure class:
\* -32700 for a line that is not parseable, -32600 for a jsonrpc other than
\* "2.0", -32601 for an unknown method, -32602 for a missing tool name and for
\* missing or malformed tool arguments, and -32000 only for a tool that fails
\* while executing with valid parameters.
C26_ErrorCodeOfFailureClass ==
    (last.op = "line" /\ IsSome(last.written) /\ Unwrap(last.written).error) =>
        /\ PrescribedCode(last.line, last.stage) # 0 =>
               Unwrap(last.written).code = PrescribedCode(last.line, last.stage)
        /\ Unwrap(last.written).code = ToolExecutionFailed =>
               last.stage \in {"execution", "tool"}

\* C27: when the first open of the Index fails during a tool call, the
\* directory is removed and the Index rebuilt from the Store before one more
\* open, which happens exactly when the rebuild succeeded and at most once; a
\* failed removal, rebuild or re-open makes the tool call fail; and after a
\* successful recovery the Index holds exactly one document per Store row.
C27_RecoverOnceFromStore ==
    (last.op = "line" /\ last.index.failed) =>
        /\ last.index.reopens <= 1
        /\ last.index.reopens = 1 <=> last.index.rebuilt
        /\ last.index.reindexed => last.index.removed
        /\ last.index.rebuilt => last.index.reindexed
        /\ ~last.index.ok =>
               /\ last.stage = "execution"
               /\ IsSome(last.written) => Unwrap(last.written).error
        /\ last.index.ok =>
               /\ last.index.rebuilt
               /\ Len(idxCommitted) = Cardinality(emails)
               /\ \A r \in emails : Cardinality(DocsWithId(idxCommitted, r.id)) = 1

\* C27 witness: an Index that had no document for the Store's row failed to
\* open, was rebuilt, and the tool call was answered from it
C27_Witness ==
    /\ last.op = "line"
    /\ last.index.failed
    /\ last.index.ok
    /\ last.indexBefore = <<>>
    /\ idxCommitted # <<>>
    /\ IsSome(last.written)
    /\ ~Unwrap(last.written).error

\* The ids of the messages the provider has delivered to the mailbox so far
DeliveredIds == {mailbox[i].id : i \in DOMAIN mailbox}

\* C28: a contact's message_count never exceeds the number of distinct email
\* ids, among those delivered for ingestion, in which the contact's address
\* occurs (an email counts once however many of from/to/cc/bcc name the
\* address and however often it is processed).
C28_CountIsLowerBound ==
    \A c \in contacts :
        c.message_count <=
            Cardinality({id \in DeliveredIds :
                c.email_address \in NormalizedAddresses(MessageEmail(id, account))})

\* The page-fetch error lines of a report
PageFetchErrors(report) ==
    {i \in DOMAIN report.errors : report.errors[i] = "page_fetch_error"}

\* C29: the Graph bootstrap leaves the enumeration of a folder for page errors
\* only after three consecutive page fetches have failed (each failure leaves
\* one error line in the folder's report; after one or two failures the
\* connector fetches again).
C29_AbandonAfterThreeFailures ==
    (run.pc = "graph_baseline" /\ run.failed) =>
        Cardinality(PageFetchErrors(run.report)) >= MAX_CONSECUTIVE_PAGE_ERRORS

\* C30: a Graph bootstrap whose enumeration was aborted by a page error
\* persists no delta link: the sync ends with no cursor stored for the folder.
C30_NoCursorAfterAbortedBootstrap ==
    (/\ last.op = "sync"
     /\ account.provider = "graph"
     /\ last.mode = "bootstrap"
     /\ last.failed) =>
        (~last.stored /\ StoredCursor = None)


\* The ids the history records after a cursor mention, in any record kind
HistoryIds(cursor) ==
    {mailbox[i].id : i \in {j \in DOMAIN mailbox : j > cursor}}

\* C31: within one Gmail incremental sync each message id is processed at most
\* once across all history records and pages, whatever record kinds mention
\* it: the added, updated and error entries of the report together never
\* exceed the number of distinct ids the history mentions.
C31_EachIdOncePerSync ==
    (/\ last.op = "sync"
     /\ last.ok
     /\ account.provider = "gmail"
     /\ last.mode = "incremental") =>
        last.report.emails_added + last.report.emails_updated
            + Len(last.report.errors)
          <= Cardinality(HistoryIds(Unwrap(last.cursorBefore)))

\* The sent ids an outcome list names, with the positions at which it does
Positions(list, id) == {i \in DOMAIN list : list[i] = id}

\* The permanent error lines that quote the sub-response to an id
ErrorLinesOf(result, id) == {i \in DOMAIN result.errors : result.errors[i].id = id}

\* C32: for every batch of distinct sent ids and every multipart response,
\* each sent id is in exactly one outcome (a parsed message, the retryable
\* list, or one permanent error line) and is in it once; a sub-response 200
\* with a message makes its id a message, a 429 and an unanswered id make it
\* retryable, any other status makes it one error line.
C32_EachSentIdOneOutcome ==
    (last.op = "parse_batch" /\ last.boundary) =>
        \A i \in DOMAIN last.sent_ids :
            LET id == last.sent_ids[i]
                asMessage == Cardinality(Positions(last.result.messages, id))
                asRetry == Cardinality(Positions(last.result.retryable_ids, id))
                asError == Cardinality(ErrorLinesOf(last.result, id))
                answer == {j \in DOMAIN last.parts : last.parts[j].answers = id}
            IN  /\ asMessage + asRetry + asError = 1
                /\ \A j \in answer :
                       LET part == last.parts[j]
                       IN  /\ (part.status_line = Some(Status200) /\ part.body = "message")
                                  => asMessage = 1
                           /\ part.status_line = Some(Status429) => asRetry = 1
                           /\ part.status_line = Some(Status404) => asError = 1
                /\ answer = {} => asRetry = 1

\* C33: in Gmail bootstrap a retryable id is re-requested in at most three
\* retry rounds after the first round, and an id whose sub-response was a 200
\* or a permanent error is never requested again.
C33_RetryOnlyThrottledIds ==
    run.pc = "gmail_batch" =>
        /\ run.round <= MAX_BATCH_RETRIES
        /\ \A i \in DOMAIN run.todo : run.todo[i] \notin run.settled

\* The steps of sync_full: the profile request, the enumeration, the batches
BootstrapSteps == {"gmail_profile", "gmail_list", "gmail_batch"}

\* C34: the history id a Gmail bootstrap persists is the value read from the
\* profile endpoint before the enumeration began, and it is persisted only in
\* the step that completes the bootstrap; when the profile request, the
\* enumeration or a token acquisition fails, sync_state is left as it was.
C34_ProfileHistoryIdOnCompletion ==
    /\ [][(run.pc = "gmail_profile" /\ run'.pc = "gmail_list") =>
              run'.upto = Len(mailbox)]_vars
    /\ [][(run.pc \in {"gmail_list", "gmail_batch"}
           /\ run'.pc \in {"gmail_list", "gmail_batch"}) =>
              run'.upto = run.upto]_vars
    /\ [][(run.pc \in BootstrapSteps /\ run'.pc # "idle") =>
              syncState' = syncState]_vars
    /\ [][(run.pc \in BootstrapSteps /\ run'.pc = "idle") =>
              IF last'.ok
              THEN /\ run.pc # "gmail_profile"
                   /\ load_history_id(syncState') = Some(run.upto)
              ELSE syncState' = syncState]_vars

\* C34 witness: a bootstrap has completed and stored the history id of its
\* profile request although the provider changed the mailbox while it ran
C34_Witness ==
    /\ last.op = "sync"
    /\ last.ok
    /\ account.provider = "gmail"
    /\ last.mode = "bootstrap"
    /\ last.stored
    /\ IsSome(load_history_id(syncState))
    /\ Unwrap(load_history_id(syncState)) < Len(mailbox)
    /\ emails # {}

\* The error lines a report holds for single messages
ApplyLines(report) == {i \in DOMAIN report.errors : report.errors[i] = "apply"}

\* C35: a message whose processing fails does not make the sync return an
\* error: a sync fails only when a request of its own failed, and the report
\* of a sync whose requests and commits all succeeded (no page failed, no
\* cursor was rejected) holds an error line for
\* a message that could not be applied, and no more such lines than there
\* were failures.
C35_MessageFailureIsOneErrorLine ==
    (last.op = "sync" /\ ~last.cancelled) =>
        /\ ~last.ok => last.failed
        /\ (last.ok /\ ~last.failed /\ ~last.stale /\ last.commitFailed = None) =>
               /\ Cardinality(ApplyLines(last.report)) <= last.upserts.failed
               /\ last.upserts.failed > 0 => ApplyLines(last.report) # {}

\* C36: when committing the Index fails after a page or batch, the sync still
\* returns a report; the report holds an error line and at least the counts
\* gathered up to the failed commit, and the emails written to the Store
\* before it are still there.
C36_CommitFailureKeepsCounts ==
    (last.op = "sync" /\ ~last.cancelled /\ IsSome(last.commitFailed)) =>
        /\ last.ok
        /\ last.report.errors # <<>>
        /\ last.report.emails_added >= Unwrap(last.commitFailed).emails_added
        /\ last.report.emails_updated >= Unwrap(last.commitFailed).emails_updated
        /\ last.upserts.added > 0 => emails # {}

\* C37: after a sync whose commits all succeeded has finished processing its
\* records, every email is in both the Store and the Index or in neither: no
\* record is left in the Store without an Index document, and none in the
\* Index without a Store row.
C37_StoreAndIndexTogether ==
    (last.op = "sync" /\ ~last.cancelled /\ last.commitFailed = None) =>
        \A id \in MessageIds :
            (\E r \in emails : r.id = id) <=> DocsWithId(idxCommitted, id) # {}

\* The page search_emails returns for a limit and an offset
PageAt(docs, table, query, filters, limit, offset) ==
    search_emails(docs, table, query,
                  [filters EXCEPT !.limit = limit, !.offset = offset]).results

\* The ids of the emails that match the query and every predicate of the
\* filters: what an unlimited first page holds
MatchingIds(docs, table, query, filters) ==
    LET all == PageAt(docs, table, query, filters, Len(docs), 0)
    IN  {all[i].email.id : i \in DOMAIN all}

\* The pages at offsets 0, L, 2L, ... up to the first offset past the Index
RECURSIVE PagesFrom(_, _, _, _, _, _)
PagesFrom(docs, table, query, filters, limit, offset) ==
    IF offset > Len(docs) THEN <<>>
    ELSE PageAt(docs, table, query, filters, limit, offset)
         \o PagesFrom(docs, table, query, filters, limit, offset + limit)

\* C38: after a search with limit L >= 1, the pages at offsets 0, L, 2L, ...
\* over the same Store and Index hold every email that matches the query and
\* all the predicates of the filters exactly once.
C38_PagesCoverEveryMatch ==
    (last.op = "search_emails" /\ last.filters.limit >= 1) =>
        LET pages == PagesFrom(idxCommitted, emails, last.query, last.filters,
                               last.filters.limit, 0)
        IN  \A id \in MatchingIds(idxCommitted, emails, last.query, last.filters) :
                Cardinality({i \in DOMAIN pages : pages[i].email.id = id}) = 1

\* C39: a tool call served while another process runs a sync and holds the
\* Index writer neither removes nor rebuilds the index directory.
C39_NoRebuildWhileWriterHeld ==
    (last.op = "line" /\ WriterHeld) =>
        /\ ~last.index.removed
        /\ ~last.index.reindexed

\* C40: a Gmail incremental sync removes an email on the failure of its
\* fetch only if the provider answered that fetch with HTTP 404, and falls
\* back to the bootstrap only if the provider rejected the stored history id
\* as stale.
C40_RemovalAndFallbackOnlyOn404 ==
    /\ run.gone \subseteq run.notFound
    /\ run.stale => Unwrap(run.cursorBefore) < run.staleHorizon
    /\ (last.op = "sync" /\ ~last.cancelled) =>
           /\ last.gone \subseteq last.notFound
           /\ last.stale => Unwrap(last.cursorBefore) < last.staleHorizon
=============================================================================
